---- MODULE Spec2Model ----
(***************************************************************************)
(* Model of apathy (tkriik/apathy): the parallel ingestion of an access    *)
(* log into a sharded Request Set and a sharded Session Map, and the       *)
(* single-threaded derivation of the path graph.                           *)
(*                                                                         *)
(* Conventions.                                                            *)
(*  - A byte is its ASCII code.  A buffer is a sequence of bytes; C offset *)
(*    o is element o + 1.  The byte at offset Len(buf) is the NUL that the *)
(*    zero-filled tail of the mapping provides (mmap of size + 1).         *)
(*  - A 64-bit unsigned value (hash, session id) is a tuple of 8 bytes,    *)
(*    least significant first, so that the arithmetic modulo 2^64 of       *)
(*    hash.c is computed exactly.                                          *)
(*  - A timestamp in milliseconds is the pair <<days, ms>> standing for    *)
(*    days * MS_IN_DAY + ms with ms < MS_IN_DAY; MS_IN_YEAR and            *)
(*    MS_IN_MONTH are exact multiples of MS_IN_DAY (360 and 30).           *)
(*  - A pointer is an offset or an index; the NULL pointer is -1, which   *)
(*    is no offset and no index.                                           *)
(***************************************************************************)
EXTENDS Integers, Sequences, FiniteSets, Bags, TLC

(***************************************************************************)
(* Bytes                                                                   *)
(***************************************************************************)
NUL == 0
TAB == 9
NL == 10
VT == 11
SP == 32
QUOTE == 34
DOT == 46
SLASH == 47
COLON == 58
QMARK == 63
ZERO == 48

NULL == -1

\* The byte at C offset o of buf; offset Len(buf) holds the terminating NUL.
ByteAt(buf, o) == IF o < Len(buf) THEN buf[o + 1] ELSE NUL

\* The len bytes of buf starting at offset o.
Slice(buf, o, len) == [k \in 1..len |-> ByteAt(buf, o + k - 1)]

(***************************************************************************)
(* field.c: get_fields                                                     *)
(***************************************************************************)
NFIELDS_MAX == 256

\* The smallest element of a non-empty set of offsets.
MinOf(S) == CHOOSE x \in S : \A y \in S : x <= y

\* The offset of the first byte at or after src that is in stop; the NUL
\* at offset Len(buf) ends every search that starts before it, and a search
\* that starts after it ends where it starts (ByteAt reads NUL there).
FirstOf(buf, src, stop) ==
    CHOOSE o \in src..(IF src > Len(buf) THEN src ELSE Len(buf)) :
        /\ o >= Len(buf) \/ ByteAt(buf, o) \in stop
        /\ \A p \in src..(o - 1) : ByteAt(buf, p) \notin stop

\* The offset of the first byte at or after src that is not in skip.
FirstNotOf(buf, src, skip) ==
    CHOOSE o \in src..(IF src > Len(buf) THEN src ELSE Len(buf)) :
        /\ o >= Len(buf) \/ ByteAt(buf, o) \notin skip
        /\ \A p \in src..(o - 1) : ByteAt(buf, p) \in skip

\* The loop that leaves src on the byte after the next newline (or NUL).
SkipLine(buf, src) == FirstOf(buf, src, {NL}) + 1

\* The fill_fields loop: state machine SEEK / STANDALONE / DOUBLE_QUOTED,
\* taken one run of bytes at a time: from FIELD_SEEK at src, the separators
\* are skipped, and the field that starts there is filled up to the byte
\* that ends it.  fvs is the array of field views, i the index of the view
\* being filled, nfields the number of fields started.
RECURSIVE FillFields(_, _, _, _, _, _)
FillFields(buf, max_fields, src, nfields, i, fvs) ==
    IF nfields = max_fields
    THEN [nfields |-> nfields, fvs |-> fvs, endp |-> src]
    ELSE
    LET \* FIELD_SEEK: '\v', '\t' and ' ' are skipped
        s == FirstNotOf(buf, src, {VT, TAB, SP})
        c == ByteAt(buf, s)
        quoted == (c = QUOTE)
        \* the first byte of the field, and the byte that ends it
        first == IF quoted THEN s + 1 ELSE s
        last == IF quoted THEN FirstOf(buf, first, {NL, QUOTE})
                ELSE FirstOf(buf, first + 1, {VT, TAB, SP, NL})
        e == ByteAt(buf, last)
        Started(len) == [k \in 1..(i + 1) |->
                           IF k = i + 1 THEN [len |-> len, src |-> first] ELSE fvs[k]]
    IN  IF c = NUL THEN [nfields |-> nfields, fvs |-> fvs, endp |-> NULL]
        ELSE IF c = NL THEN [nfields |-> nfields, fvs |-> fvs, endp |-> s]
        ELSE IF nfields + 1 = max_fields
        THEN \* the field is started and the loop returns at its top
             [nfields |-> nfields + 1,
              fvs |-> Started(IF quoted THEN 0 ELSE 1),
              endp |-> IF quoted THEN first ELSE first + 1]
        ELSE IF e = NUL
        THEN [nfields |-> nfields + 1, fvs |-> Started(last - first), endp |-> NULL]
        ELSE IF e = NL
        THEN [nfields |-> nfields + 1, fvs |-> Started(last - first), endp |-> last]
        ELSE \* a separator (FIELD_STANDALONE) or the closing quote
             \* (FIELD_DOUBLE_QUOTED): i++, src++, back to FIELD_SEEK
             FillFields(buf, max_fields, last + 1, nfields + 1, i + 1,
                        Started(last - first))

\* get_fields(fvs, max_fields, src, skip_line_seek, &endp): the number of
\* fields, the field views and the continuation pointer (NULL at the NUL).
\* line is the offset at which tokenizing starts.
get_fields(buf, max_fields, src, skip_line_seek) ==
    LET line == IF skip_line_seek THEN src ELSE SkipLine(buf, src)
    IN  [line |-> line] @@ FillFields(buf, max_fields, line, 0, 0, <<>>)

(***************************************************************************)
(* hash.c: 64-bit FNV-1a                                                   *)
(***************************************************************************)
BYTE == 256

\* A 64-bit value as its 8 bytes, least significant first.
U64(b0, b1, b2, b3, b4, b5, b6, b7) == <<b0, b1, b2, b3, b4, b5, b6, b7>>

\* FNV_PRIME64 1099511628211ULL = 0x00000100000001b3
FNV_PRIME64 == U64(179, 1, 0, 0, 0, 1, 0, 0)
\* FNV_BASIS64 14695981039346656037ULL = 0xcbf29ce484222325
FNV_BASIS64 == U64(37, 35, 34, 132, 228, 156, 242, 203)

\* Bitwise exclusive or of two bytes, bit by bit.
XorBits(a, b) ==
    ((a + b) % 2)
    + 2 * (((a \div 2) + (b \div 2)) % 2)
    + 4 * (((a \div 4) + (b \div 4)) % 2)
    + 8 * (((a \div 8) + (b \div 8)) % 2)
    + 16 * (((a \div 16) + (b \div 16)) % 2)
    + 32 * (((a \div 32) + (b \div 32)) % 2)
    + 64 * (((a \div 64) + (b \div 64)) % 2)
    + 128 * (((a \div 128) + (b \div 128)) % 2)

\* hash ^= s[i]: s[i] is a char; it is converted to uint64_t with sign
\* extension (char is signed on the x86-64 and i386 ABIs), so a byte above
\* 127 also flips the seven upper bytes.
XorChar(hash, c) ==
    IF c > 127
    THEN <<XorBits(hash[1], c), 255 - hash[2], 255 - hash[3], 255 - hash[4],
           255 - hash[5], 255 - hash[6], 255 - hash[7], 255 - hash[8]>>
    ELSE <<XorBits(hash[1], c), hash[2], hash[3], hash[4],
           hash[5], hash[6], hash[7], hash[8]>>

\* a * b modulo 2^64, by long multiplication: tk is the sum of the products
\* a[i] * b[j] with i + j = k (0-based) and of the carry out of column k - 1.
Mul64(a, b) ==
    LET t0 == a[1] * b[1]
        t1 == a[1] * b[2] + a[2] * b[1] + (t0 \div BYTE)
        t2 == a[1] * b[3] + a[2] * b[2] + a[3] * b[1] + (t1 \div BYTE)
        t3 == a[1] * b[4] + a[2] * b[3] + a[3] * b[2] + a[4] * b[1] + (t2 \div BYTE)
        t4 == a[1] * b[5] + a[2] * b[4] + a[3] * b[3] + a[4] * b[2] + a[5] * b[1] + (t3 \div BYTE)
        t5 == a[1] * b[6] + a[2] * b[5] + a[3] * b[4] + a[4] * b[3] + a[5] * b[2] + a[6] * b[1] + (t4 \div BYTE)
        t6 == a[1] * b[7] + a[2] * b[6] + a[3] * b[5] + a[4] * b[4] + a[5] * b[3] + a[6] * b[2] + a[7] * b[1] + (t5 \div BYTE)
        t7 == a[1] * b[8] + a[2] * b[7] + a[3] * b[6] + a[4] * b[5] + a[5] * b[4] + a[6] * b[3] + a[7] * b[2] + a[8] * b[1] + (t6 \div BYTE)
    IN  <<t0 % BYTE, t1 % BYTE, t2 % BYTE, t3 % BYTE, t4 % BYTE, t5 % BYTE, t6 % BYTE, t7 % BYTE>>

hash64_init == FNV_BASIS64

\* The loop of hash64_update over the bytes of s.  The hash stays below
\* 2^64; stating it makes TLC compute each step before it descends.
RECURSIVE hash64_update(_, _)
hash64_update(hash, s) ==
    IF s = <<>> THEN hash
    ELSE LET next == Mul64(XorChar(hash, Head(s)), FNV_PRIME64)
         IN  CASE next[8] < BYTE -> hash64_update(next, Tail(s))

(***************************************************************************)
(* apathy.c: ts_rfc3339_to_ms (time.c: rfc3339_with_ms_to_ms)              *)
(***************************************************************************)
MS_IN_DAY == 86400000
MS_IN_HOUR == 3600000
MS_IN_MIN == 60000
MS_IN_SEC == 1000
\* MS_IN_YEAR 31104000000 = 360 * MS_IN_DAY, MS_IN_MONTH 2592000000 = 30 * MS_IN_DAY
DAYS_IN_YEAR == 360
DAYS_IN_MONTH == 30
EPOCH_YEAR == 1970

\* The table ctoi: digits map to their value, every other byte to 0.
ctoi(c) == IF c >= ZERO /\ c <= ZERO + 9 THEN c - ZERO ELSE 0

\* The timestamp read at offset s of buf, as <<days, ms>>.
ts_rfc3339_to_ms(buf, s) ==
    LET d(o) == ctoi(ByteAt(buf, s + o))
        year == (d(0) * 1000 + d(1) * 100 + d(2) * 10 + d(3)) - EPOCH_YEAR
        month == d(5) * 10 + d(6)
        day == d(8) * 10 + d(9)
        hour == d(11) * 10 + d(12)
        min == d(14) * 10 + d(15)
        sec == d(17) * 10 + d(18)
        ms == d(20) * 100 + d(21) * 10 + d(22)
        low == hour * MS_IN_HOUR + min * MS_IN_MIN + sec * MS_IN_SEC + ms
    IN  <<year * DAYS_IN_YEAR + month * DAYS_IN_MONTH + day + (low \div MS_IN_DAY),
          low % MS_IN_DAY>>

\* r1->ts > r2->ts and r1->ts == r2->ts on timestamps.
TsGreater(t1, t2) == t1[1] > t2[1] \/ (t1[1] = t2[1] /\ t1[2] > t2[2])

\* (double)edge_ts - (double)ts, in milliseconds.
TsDiff(t2, t1) == (t2[1] - t1[1]) * MS_IN_DAY + (t2[2] - t1[2])

\* time.c: date_to_ms on the ten bytes "YYYY-MM-DD" at offset s of buf.
date_to_ms(buf, s) ==
    LET d(o) == ctoi(ByteAt(buf, s + o))
        year == (d(0) * 1000 + d(1) * 100 + d(2) * 10 + d(3)) - EPOCH_YEAR
        month == d(5) * 10 + d(6)
        day == d(8) * 10 + d(9)
    IN  <<year * DAYS_IN_YEAR + month * DAYS_IN_MONTH + day, 0>>

\* time_without_ms_to_ms reading hours and minutes only.
time_without_ms_to_ms_nosec(buf, s) ==
    LET d(o) == ctoi(ByteAt(buf, s + o))
        hour == d(0) * 10 + d(1)
        min == d(3) * 10 + d(4)
        low == hour * MS_IN_HOUR + min * MS_IN_MIN
    IN  <<low \div MS_IN_DAY, low % MS_IN_DAY>>

\* time.c: time_without_ms_to_ms on the eight bytes "hh:mm:ss" at offset s.
time_without_ms_to_ms(buf, s) ==
    LET d(o) == ctoi(ByteAt(buf, s + o))
        hour == d(0) * 10 + d(1)
        min == d(3) * 10 + d(4)
        sec == d(6) * 10 + d(7)
        low == hour * MS_IN_HOUR + min * MS_IN_MIN + sec * MS_IN_SEC
    IN  <<low \div MS_IN_DAY, low % MS_IN_DAY>>

(***************************************************************************)
(* Sparse arrays: handles[] and locks[] hold NULL (no entry, unlocked)     *)
(* everywhere but at the indices in their domain.                          *)
(***************************************************************************)
At(arr, idx, default) == IF idx \in DOMAIN arr THEN arr[idx] ELSE default
Put(arr, idx, val) == (idx :> val) @@ arr
Drop(arr, idx) == [k \in DOMAIN arr \ {idx} |-> arr[k]]
Empty == <<>>

(***************************************************************************)
(* request.c: raw request, truncation, Request Set                         *)
(***************************************************************************)
REQUEST_LEN_MAX == 4096
\* REQUEST_SET_BUCKET_MASK (REQUEST_SET_NBUCKETS - 1), with NBUCKETS 1 << 8:
\* the mask keeps the low byte of the hash.
REQUEST_SET_NBUCKETS == 256
REQUEST_ID_START == 0

Min(a, b) == IF a < b THEN a ELSE b

\* strcspn(s, reject) and strspn(s, accept) on the C string at offset s.
strcspn(buf, s, reject) == FirstOf(buf, s, reject) - s

strspn(buf, s, accept) == FirstNotOf(buf, s, accept) - s

\* init_raw_request_from_src with a URL that runs on through '?'.
init_raw_request_from_src_query(buf, src, raw_size) ==
    LET method_size == strcspn(buf, src, {SP})
        s1 == src + method_size + 1
        sep_size == strspn(buf, s1, {SP, TAB, VT})
        s2 == s1 + sep_size + 1
        url_size == strcspn(buf, s2, {QUOTE, SP, NL})
        req_size == Min(method_size + sep_size + url_size + 2, raw_size)
    IN  Slice(buf, src, req_size)

\* init_raw_request_from_src: the bytes copied into raw_buf.
init_raw_request_from_src(buf, src, raw_size) ==
    LET method_size == strcspn(buf, src, {SP})
        s1 == src + method_size + 1
        sep_size == strspn(buf, s1, {SP, TAB, VT})
        s2 == s1 + sep_size + 1
        url_size == strcspn(buf, s2, {QMARK, QUOTE, SP, NL})
        req_size == Min(method_size + sep_size + url_size + 2, raw_size)
    IN  Slice(buf, src, req_size)

\* get_regex_matches(regex, s, matches, 1): matches[0], or REG_NOMATCH, for
\* which the offsets stand at -1.  The patterns are extended regular
\* expressions (REG_EXTENDED); the model has two forms of them.  A pattern
\* without metacharacters matches its leftmost occurrence in s.  A byte
\* followed by '*' matches at offset 0 of every s: the longest run of that
\* byte at the start of s, which may be empty.
REG_NOMATCH == [rm_so |-> -1, rm_eo |-> -1]
STAR == 42

IsStarPattern(pattern) == Len(pattern) = 2 /\ pattern[2] = STAR

StarRun(c, s) ==
    IF \E k \in 1..Len(s) : s[k] # c
    THEN (CHOOSE k \in 1..Len(s) : s[k] # c /\ \A j \in 1..(k - 1) : s[j] = c) - 1
    ELSE Len(s)

Occurs(pattern, s, o) ==
    /\ o + Len(pattern) <= Len(s)
    /\ \A k \in 1..Len(pattern) : s[o + k] = pattern[k]

get_regex_matches(pattern, s) ==
    IF IsStarPattern(pattern)
    THEN [rm_so |-> 0, rm_eo |-> StarRun(pattern[1], s)]
    ELSE
    IF \E o \in 0..Len(s) : Occurs(pattern, s, o)
    THEN LET so == CHOOSE o \in 0..Len(s) :
                      /\ Occurs(pattern, s, o)
                      /\ \A o2 \in 0..(o - 1) : ~Occurs(pattern, s, o2)
         IN  [rm_so |-> so, rm_eo |-> so + Len(pattern)]
    ELSE REG_NOMATCH

\* The do-while loop of truncate_raw_request: trunc_buf after the loop.
RECURSIVE TruncateLoop(_, _, _, _)
TruncateLoop(trunc_buf, raw_buf, match, p) ==
    LET out == trunc_buf \o SubSeq(raw_buf, 1, match.rm_so) \o p.alias
        rest == SubSeq(raw_buf, match.rm_eo + 1, Len(raw_buf))
        next == get_regex_matches(p.pattern, rest)
    IN  IF next = REG_NOMATCH THEN out
        ELSE TruncateLoop(out, rest, next, p)

\* truncate_raw_request(trunc_buf, ..., raw_buf, raw_buf_size, tp): the
\* bytes of trunc_buf.  tp is the list of [pattern, alias].
truncate_raw_request(raw_buf, tp) ==
    LET hits == {p \in 1..Len(tp) : get_regex_matches(tp[p].pattern, raw_buf) # REG_NOMATCH}
    IN  IF hits = {} THEN raw_buf
        ELSE LET pattern_idx == CHOOSE p \in hits : \A q \in hits : p <= q
             IN  TruncateLoop(<<>>, raw_buf,
                              get_regex_matches(tp[pattern_idx].pattern, raw_buf),
                              tp[pattern_idx])

\* bucket_idx = hash & REQUEST_SET_BUCKET_MASK
RequestBucket(hash) == hash[1] % REQUEST_SET_NBUCKETS

\* A lookup that never finds the entry.
HASH_FIND_miss(handle, key) == 0

\* HASH_FIND(hh, *handlep, trunc_buf, trunc_size, entry): the position of
\* the entry with that key in the bucket's list, 0 for entry == NULL.
HASH_FIND(handle, key) ==
    IF \E k \in 1..Len(handle) : handle[k].data = key
    THEN CHOOSE k \in 1..Len(handle) : handle[k].data = key
    ELSE 0

init_request_set ==
    [handles |-> Empty, locks |-> Empty, nrequests |-> 0,
     rid_lock |-> NULL, rid_ctr |-> REQUEST_ID_START]

(***************************************************************************)
(* session.c: Session Map                                                  *)
(***************************************************************************)
SESSION_MAP_ENTRY_INIT_CAPREQUESTS == 8

\* bucket_idx = hash64_update(hash64_init(), &sid, sizeof(sid))
\*              & SESSION_MAP_BUCKET_MASK, with NBUCKETS 1 << 16: the mask
\* keeps the two low bytes.  The 8 bytes of sid are read in memory order
\* (least significant first on the little-endian targets).
SessionBucket(sid) ==
    LET h == hash64_update(hash64_init, sid)
    IN  h[1] + BYTE * h[2]

\* HASH_FIND_INT / HASH_ADD_INT take sizeof(int) bytes at the address of
\* the key field: the key of an entry is the first 4 bytes of its sid.
SessionKey(sid) == SubSeq(sid, 1, 4)

SessionFind(handle, sid) ==
    IF \E k \in 1..Len(handle) : SessionKey(handle[k].sid) = SessionKey(sid)
    THEN CHOOSE k \in 1..Len(handle) : SessionKey(handle[k].sid) = SessionKey(sid)
    ELSE 0

init_session_map == [handles |-> Empty, locks |-> Empty]

\* apathy.c holds a copy of amend_session_map_entry of its own, which its
\* run_thread calls: an entry has room for SESSION_MAP_ENTRY_MAX_NREQUESTS
\* requests in zeroed arrays, a request is inserted at its place in
\* timestamp order, and it is left out when the request before or at that
\* place has the same id.  The slot at index nrequests has never been
\* written and holds 0; at index 0 the test of requests[i - 1] reads
\* outside the array, which is undefined: it may or may not compare equal.
\* The lists the bucket can hold after the call.
SESSION_MAP_ENTRY_MAX_NREQUESTS == 16
ApathyAmendBucket(handle, sid, ts, rid) ==
    LET k == SessionFind(handle, sid)
    IN  IF k = 0
        THEN {Append(handle,
                     [sid |-> sid, nrequests |-> 1,
                      caprequests |-> SESSION_MAP_ENTRY_MAX_NREQUESTS,
                      requests |-> <<[rid |-> rid, ts |-> ts]>>])}
        ELSE LET entry == handle[k]
                 n == entry.nrequests
                 \* for (; 0 < i && ts < entry->timestamps[i - 1]; i--);
                 i == IF \E j \in 1..n : ~TsGreater(entry.requests[j].ts, ts)
                      THEN CHOOSE j \in 1..n :
                              /\ ~TsGreater(entry.requests[j].ts, ts)
                              /\ \A m \in (j + 1)..n : TsGreater(entry.requests[m].ts, ts)
                      ELSE 0
                 cur == IF i < n THEN entry.requests[i + 1].rid ELSE 0
                 amended == [handle EXCEPT ![k] =
                               [entry EXCEPT !.requests = SubSeq(@, 1, i)
                                                          \o <<[rid |-> rid, ts |-> ts]>>
                                                          \o SubSeq(@, i + 1, n),
                                             !.nrequests = @ + 1]]
             IN  IF n = SESSION_MAP_ENTRY_MAX_NREQUESTS THEN {handle}
                 ELSE IF i = 0
                 THEN {handle} \cup (IF cur = rid THEN {} ELSE {amended})
                 ELSE IF entry.requests[i].rid = rid \/ cur = rid THEN {handle}
                 ELSE {amended}

\* An amend that puts the request in front of the entry's list.
AmendBucket_front(handle, sid, ts, rid) ==
    LET k == SessionFind(handle, sid)
    IN  IF k = 0
        THEN Append(handle,
                    [sid |-> sid, nrequests |-> 1,
                     caprequests |-> SESSION_MAP_ENTRY_INIT_CAPREQUESTS,
                     requests |-> <<[rid |-> rid, ts |-> ts]>>])
        ELSE LET entry == handle[k]
                 cap == IF entry.nrequests = entry.caprequests
                        THEN 2 * entry.caprequests ELSE entry.caprequests
             IN  [handle EXCEPT ![k] =
                    [entry EXCEPT !.caprequests = cap,
                                  !.requests = <<[rid |-> rid, ts |-> ts]>> \o @,
                                  !.nrequests = @ + 1]]

\* The body of amend_session_map_entry between lock and unlock: the bucket's
\* list after the call.
AmendBucket(handle, sid, ts, rid) ==
    LET k == SessionFind(handle, sid)
    IN  IF k = 0
        THEN Append(handle,
                    [sid |-> sid, nrequests |-> 1,
                     caprequests |-> SESSION_MAP_ENTRY_INIT_CAPREQUESTS,
                     requests |-> <<[rid |-> rid, ts |-> ts]>>])
        ELSE LET entry == handle[k]
                 cap == IF entry.nrequests = entry.caprequests
                        THEN 2 * entry.caprequests ELSE entry.caprequests
             IN  [handle EXCEPT ![k] =
                    [entry EXCEPT !.caprequests = cap,
                                  !.requests = Append(@, [rid |-> rid, ts |-> ts]),
                                  !.nrequests = @ + 1]]

\* An amend that returns with the bucket still locked.
amend_session_map_entry_nounlock(map, bucket_idx, sid, ts, rid) ==
    [map EXCEPT !.handles = Put(@, bucket_idx,
                                AmendBucket(At(@, bucket_idx, <<>>), sid, ts, rid))]

amend_session_map_entry(sm, bucket_idx, sid, ts, rid) ==
    [sm EXCEPT !.handles = Put(@, bucket_idx,
                               AmendBucket(At(@, bucket_idx, <<>>), sid, ts, rid)),
               !.locks = Drop(@, bucket_idx)]

(***************************************************************************)
(* Inputs: access logs.  Every line has the layout                          *)
(*   <rfc3339 timestamp> <ip address> "<method> <url>" <user agent>         *)
(* which init_line_config turns into the scan plan LinePlan for the         *)
(* default session fields "ip1,useragent" (apathy.c, main).                 *)
(***************************************************************************)
\* "1970-01-01T00:00:0<sec>.000"
TsField(sec) ==
    <<49, 57, 55, 48, 45, 48, 49, 45, 48, 49, 84, 48, 48, 58, 48, 48, 58, 48>>
    \o <<ZERO + sec>> \o <<DOT, 48, 48, 48>>
\* "1.1.1.1", "1.1.1.11", "2.2.2.2"
IpA == <<49, 46, 49, 46, 49, 46, 49>>
IpA1 == <<49, 46, 49, 46, 49, 46, 49, 49>>
IpB == <<50, 46, 50, 46, 50, 46, 50>>
\* "10.19.197.31", "13.59.237.93": with "Mozilla/5" the session ids are
\* 0xf079611b4a5b5f7b and 0x9dadc6b94a5b5f7b, both of bucket 0xc72f
IpLowA == <<49, 48, 46, 49, 57, 46, 49, 57, 55, 46, 51, 49>>
IpLowB == <<49, 51, 46, 53, 57, 46, 50, 51, 55, 46, 57, 51>>
\* "Mozilla/5", "1Mozilla/5"
UaM == <<77, 111, 122, 105, 108, 108, 97, 47, 53>>
Ua1M == <<49, 77, 111, 122, 105, 108, 108, 97, 47, 53>>
\* "GET http://x/<u>" between double quotes; u is the path's last segment
ReqField(u) ==
    <<QUOTE, 71, 69, 84, SP, 104, 116, 116, 112, COLON, SLASH, SLASH, 120, SLASH>>
    \o u \o <<QUOTE>>
\* "a", "b", "c"
UrlA == <<97>>
UrlB == <<98>>
UrlC == <<99>>

Line(sec, ip, u, ua) ==
    TsField(sec) \o <<SP>> \o ip \o <<SP>> \o ReqField(u) \o <<SP>> \o ua \o <<NL>>
\* A line with three fields only (no request field).
ShortLine(sec, ip, ua) == TsField(sec) \o <<SP>> \o ip \o <<SP>> \o ua \o <<NL>>

\* (S1) one session, a then b
FileS1 == Line(0, IpA, UrlA, UaM) \o Line(1, IpA, UrlB, UaM)
\* (S2) one session, a, a, b: a repeated request
FileRepeat == Line(0, IpA, UrlA, UaM) \o Line(1, IpA, UrlA, UaM) \o Line(2, IpA, UrlB, UaM)
\* (S4) two sessions interleaved, each a then b
FileS4 == Line(0, IpA, UrlA, UaM) \o Line(0, IpB, UrlA, UaM)
          \o Line(1, IpA, UrlB, UaM) \o Line(1, IpB, UrlB, UaM)
\* (S5) a malformed line between two well-formed ones
FileShort == Line(0, IpA, UrlA, UaM) \o ShortLine(1, IpA, UaM) \o Line(2, IpA, UrlB, UaM)
\* two sessions of one request each, a and b, around a malformed line: with
\* two threads the chunk boundary falls inside the malformed line
FileTie == Line(0, IpA, UrlA, UaM) \o ShortLine(1, IpA, UaM) \o Line(2, IpB, UrlB, UaM)
\* one session whose lines are not in time order: b at second 1, then a at
\* second 0 and a at second 2 (the session is a, b, a; b is seen first)
FileBack == Line(1, IpA, UrlB, UaM) \o Line(0, IpA, UrlA, UaM) \o Line(2, IpA, UrlA, UaM)
\* one session asking for a?b, a?c and a: the same URL with two query strings
\* and with none
FileQuery == Line(0, IpA, <<97, QMARK, 98>>, UaM) \o Line(1, IpA, <<97, QMARK, 99>>, UaM)
             \o Line(2, IpA, UrlA, UaM)
\* one session asking for a and then b within the same millisecond
FileSame == Line(0, IpA, UrlA, UaM) \o Line(0, IpA, UrlB, UaM)
\* two clients whose session ids differ in their high 32 bits only and fall
\* in one bucket, asking for a and for b
FileLow32 == Line(0, IpLowA, UrlA, UaM) \o Line(1, IpLowB, UrlB, UaM)
\* session fields ("1.1.1.1", "1Mozilla/5") and ("1.1.1.11", "Mozilla/5")
FileConcat == Line(0, IpA, UrlA, UaM) \o Line(1, IpA, UrlB, Ua1M) \o Line(2, IpA1, UrlC, UaM)

\* The number of requests of the long session, and the length of the line
\* that follows them.
LongLines == 9
LongPad == 1800
\* one session of LongLines requests a, a, b, a, b, ..., one second apart,
\* then one line of a single field that is longer than a chunk
RECURSIVE LongSession(_)
LongSession(n) ==
    IF n = 0 THEN <<>>
    ELSE LongSession(n - 1)
         \o Line(n - 1, IpA, IF n = 1 \/ n % 2 = 0 THEN UrlA ELSE UrlB, UaM)
FileLong == LongSession(LongLines) \o [k \in 1..LongPad |-> 120] \o <<NL>>
\* one session a, b, a, b, a, b at seconds 0, 1, 2, 4, 5, 9 (a -> b takes 1,
\* 2 and 4 seconds), then the long line
FileMean == Line(0, IpA, UrlA, UaM) \o Line(1, IpA, UrlB, UaM)
            \o Line(2, IpA, UrlA, UaM) \o Line(4, IpA, UrlB, UaM)
            \o Line(5, IpA, UrlA, UaM) \o Line(9, IpA, UrlB, UaM)
            \o [k \in 1..LongPad |-> 120] \o <<NL>>

Files == {FileS1, FileRepeat, FileS4, FileShort, FileConcat, FileLong, FileMean,
          FileTie, FileBack, FileQuery, FileSame, FileLow32}

\* The thread counts the user may ask for (-T), 1..MaxThreads.
MaxThreads == 3
\* MT_THRESHOLD is 4 * 1024 * 1024 in the source; the model scales the
\* logs, and the threshold with them, down to a few lines.
MT_THRESHOLD == 120

\* The truncate patterns of a run: none (no pattern file given), or the one
\* pattern "/x" with the alias "/$".
NoPatterns == <<>>
HostPattern == <<[pattern |-> <<SLASH, 120>>, alias |-> <<SLASH, 36>>]>>

\* The runs: every log without patterns, and (S4) with the pattern.
Runs == {[file |-> f, tp |-> NoPatterns] : f \in Files}
        \cup {[file |-> FileS4, tp |-> HostPattern]}

(***************************************************************************)
(* apathy.c: init_line_config, init_work_ctx                               *)
(***************************************************************************)
\* lc->indices for the layout above: amend_line_config appends one field_idx
\* per recognised field, in field order; "ip1" and "useragent" are session
\* fields.
LinePlan ==
    << [type |-> "FIELD_TS_RFC3339", i |-> 0, is_session |-> FALSE],
       [type |-> "FIELD_IPADDR", i |-> 1, is_session |-> TRUE],
       [type |-> "FIELD_REQUEST", i |-> 2, is_session |-> FALSE],
       [type |-> "FIELD_USERAGENT", i |-> 3, is_session |-> TRUE] >>

init_line_config(buf) ==
    [ntotal_fields |-> get_fields(buf, NFIELDS_MAX, 0, TRUE).nfields,
     nfields |-> Len(LinePlan),
     indices |-> LinePlan]

\* The number of threads init_work_ctx starts for a log of len bytes when
\* the user asked for n threads.
WorkThreads(len, n) == IF len < MT_THRESHOLD THEN 1 ELSE n

\* thread_ctx[tid].chunk
Chunk(len, nthreads, tid) ==
    LET chunk_size == len \div nthreads
        chunk_rem == len % nthreads
        start_offset == tid * chunk_size
        end_offset == IF tid < nthreads - 1
                      THEN start_offset + chunk_size
                      ELSE start_offset + chunk_size + chunk_rem
    IN  [start |-> start_offset, end |-> end_offset, size |-> end_offset - start_offset]

(***************************************************************************)
(* State                                                                   *)
(***************************************************************************)
VARIABLES
    file,      \* log_view->src: the mapped bytes
    tp,        \* the truncate patterns
    lc,        \* the line config
    nthreads,  \* work_ctx->nthreads
    chunk,     \* thread_ctx[tid].chunk
    pc,        \* where each worker is in run_thread
    src,       \* each worker's cursor
    loc,       \* each worker's locals (ts, sid, rid, trunc_buf, ...)
    rs,        \* the Request Set
    sm,        \* the Session Map
    mainpc,    \* where the main thread is
    rt,        \* the Request Table
    pg,        \* the path graph
    gp,        \* the loop variables of gen_path_graph
    hist,      \* history: what the workers have done so far
    out        \* what has been written to the output stream

vars == <<file, tp, lc, nthreads, chunk, pc, src, loc, rs, sm, mainpc, rt, pg, gp, hist,
          out>>

Workers == 0..(nthreads - 1)

NoLocals == [line |-> NULL]

\* rt and pg of main, and the locals of gen_path_graph, before the function
\* that fills them in has run.
Unset == [unset |-> TRUE]

Init ==
    /\ \E run \in Runs : file = run.file /\ tp = run.tp
    /\ lc = init_line_config(file)
    /\ \E n \in 1..MaxThreads : nthreads = WorkThreads(Len(file), n)
    /\ chunk = [tid \in Workers |-> Chunk(Len(file), nthreads, tid)]
    /\ pc = [tid \in Workers |-> "scan"]
    /\ src = [tid \in Workers |-> chunk[tid].start]
    /\ loc = [tid \in Workers |-> NoLocals]
    /\ rs = init_request_set
    /\ sm = init_session_map
    /\ mainpc = "finish_work_ctx"
    /\ rt = Unset
    /\ pg = Unset
    /\ gp = Unset
    /\ hist = [tokenized |-> EmptyBag, returns |-> {}, amends |-> EmptyBag]
    /\ out = <<>>

(***************************************************************************)
(* apathy.c: run_thread                                                    *)
(***************************************************************************)
\* The for loop over lc->indices: the session id of a tokenized line.
RECURSIVE SessionId(_, _, _, _)
SessionId(buf, fvs, indices, sid) ==
    IF indices = <<>> THEN sid
    ELSE LET fidx == Head(indices)
             fv == fvs[fidx.i + 1]
         IN  SessionId(buf, fvs, Tail(indices),
                       IF fidx.is_session
                       THEN hash64_update(sid, Slice(buf, fv.src, fv.len))
                       ELSE sid)

\* The view of the first field of the given type in the scan plan.
FieldOf(fvs, indices, type) ==
    LET k == CHOOSE k \in 1..Len(indices) :
                 /\ indices[k].type = type
                 /\ \A j \in 1..(k - 1) : indices[j].type # type
    IN  fvs[indices[k].i + 1]

\* The session-contributing fields of a tokenized line, in plan order.
SessionFields(buf, fvs, indices) ==
    LET ks == {k \in 1..Len(indices) : indices[k].is_session}
    IN  [k \in ks |-> Slice(buf, fvs[indices[k].i + 1].src, fvs[indices[k].i + 1].len)]

\* What a worker computes from a well-formed line before it takes a lock:
\* ts and sid (run_thread), trunc_buf, hash and bucket_idx
\* (add_request_set_entry), the session bucket (amend_session_map_entry).
LineLocals(buf, g, config, patterns) ==
    LET sid == SessionId(buf, g.fvs, config.indices, hash64_init)
        raw_buf == init_raw_request_from_src(
                       buf, FieldOf(g.fvs, config.indices, "FIELD_REQUEST").src,
                       REQUEST_LEN_MAX)
        trunc_buf == truncate_raw_request(raw_buf, patterns)
        hash == hash64_update(hash64_init, trunc_buf)
    IN  [line |-> g.line,
         ts |-> ts_rfc3339_to_ms(buf, FieldOf(g.fvs, config.indices, "FIELD_TS_RFC3339").src),
         sid |-> sid,
         sfields |-> SessionFields(buf, g.fvs, config.indices),
         trunc_buf |-> trunc_buf,
         hash |-> hash,
         bucket_idx |-> RequestBucket(hash),
         sm_bucket_idx |-> SessionBucket(sid),
         entry |-> NULL,
         tmp |-> NULL,
         rid |-> NULL]

\* run_thread leaving its loop at the first line it does not accept.
Scan_break(w) ==
    /\ mainpc = "finish_work_ctx"
    /\ pc[w] = "scan"
    /\ IF src[w] = NULL \/ chunk[w].end <= src[w]
       THEN /\ pc' = [pc EXCEPT ![w] = "exit"]
            /\ UNCHANGED <<src, loc, hist>>
       ELSE LET skip_line_seek == (src[w] = 0)
                g == get_fields(file, NFIELDS_MAX, src[w], skip_line_seek)
            IN  /\ src' = [src EXCEPT ![w] = g.endp]
                /\ hist' = [hist EXCEPT !.tokenized =
                              IF g.line < Len(file) THEN @ (+) SetToBag({g.line}) ELSE @]
                /\ IF g.nfields # lc.ntotal_fields
                   THEN pc' = [pc EXCEPT ![w] = "exit"] /\ loc' = loc
                   ELSE /\ loc' = [loc EXCEPT ![w] = LineLocals(file, g, lc, tp)]
                        /\ pc' = [pc EXCEPT ![w] = "rs_lock"]
    /\ UNCHANGED <<file, tp, lc, nthreads, chunk, rs, sm, mainpc, rt, pg, gp, out>>

\* One iteration of the while loop up to the first lock, or the exit.
Scan(w) ==
    /\ mainpc = "finish_work_ctx"
    /\ pc[w] = "scan"
    /\ IF src[w] = NULL \/ chunk[w].end <= src[w]
       THEN /\ pc' = [pc EXCEPT ![w] = "exit"]
            /\ UNCHANGED <<src, loc, hist>>
       ELSE LET skip_line_seek == (src[w] = 0)
                g == get_fields(file, NFIELDS_MAX, src[w], skip_line_seek)
            IN  /\ src' = [src EXCEPT ![w] = g.endp]
                /\ hist' = [hist EXCEPT !.tokenized =
                              IF g.line < Len(file) THEN @ (+) SetToBag({g.line}) ELSE @]
                /\ IF g.nfields # lc.ntotal_fields
                   THEN UNCHANGED <<pc, loc>>
                   ELSE /\ loc' = [loc EXCEPT ![w] = LineLocals(file, g, lc, tp)]
                        /\ pc' = [pc EXCEPT ![w] = "rs_lock"]
    /\ UNCHANGED <<file, tp, lc, nthreads, chunk, rs, sm, mainpc, rt, pg, gp, out>>

(***************************************************************************)
(* request.c: add_request_set_entry                                        *)
(***************************************************************************)
\* pthread_spin_lock(bucket_lock), then HASH_FIND under the lock.
RsLock(w) ==
    /\ pc[w] = "rs_lock"
    /\ loc[w].bucket_idx \notin DOMAIN rs.locks
    /\ rs' = [rs EXCEPT !.locks = Put(@, loc[w].bucket_idx, w)]
    /\ LET k == HASH_FIND(At(rs.handles, loc[w].bucket_idx, <<>>), loc[w].trunc_buf)
       IN  IF k # 0
           THEN /\ loc' = [loc EXCEPT ![w].entry = k]
                /\ pc' = [pc EXCEPT ![w] = "rs_unlock"]
           ELSE /\ loc' = loc
                /\ pc' = [pc EXCEPT ![w] = "rid_lock"]
    /\ UNCHANGED <<file, tp, lc, nthreads, chunk, src, sm, mainpc, rt, pg, gp, hist, out>>

\* pthread_spin_lock(&rs->rid_lock), after the entry has been allocated.
RidLock(w) ==
    /\ pc[w] = "rid_lock"
    /\ rs.rid_lock = NULL
    /\ rs' = [rs EXCEPT !.rid_lock = w]
    /\ pc' = [pc EXCEPT ![w] = "rid_mint"]
    /\ UNCHANGED <<file, tp, lc, nthreads, chunk, src, loc, sm, mainpc, rt, pg, gp, hist, out>>

\* An insertion that leaves rid_lock locked.
MintAndAdd_nounlock(set, bucket_idx, data, hash) ==
    [set EXCEPT !.rid_ctr = @ + 1,
                !.handles = Put(@, bucket_idx,
                                Append(At(@, bucket_idx, <<>>),
                                       [data |-> data, hash |-> hash, rid |-> set.rid_ctr]))]

\* The request set after entry->rid = rs->rid_ctr++, the unlock of rid_lock
\* and HASH_ADD_KEYPTR.
MintAndAdd(set, bucket_idx, data, hash) ==
    [set EXCEPT !.rid_ctr = @ + 1,
                !.rid_lock = NULL,
                !.handles = Put(@, bucket_idx,
                                Append(At(@, bucket_idx, <<>>),
                                       [data |-> data, hash |-> hash, rid |-> set.rid_ctr]))]

\* Lines 129-135 with the new entry added to an emptied table.
RidMint_fresh(w) ==
    /\ pc[w] = "rid_mint"
    /\ rs' = MintAndAdd([rs EXCEPT !.handles = Empty],
                        loc[w].bucket_idx, loc[w].trunc_buf, loc[w].hash)
    /\ loc' = [loc EXCEPT ![w].entry = Len(rs'.handles[loc[w].bucket_idx]),
                          ![w].tmp = rs.nrequests]
    /\ pc' = [pc EXCEPT ![w] = "nreq_store"]
    /\ UNCHANGED <<file, tp, lc, nthreads, chunk, src, sm, mainpc, rt, pg, gp, hist, out>>

\* Lines 129-135 up to the load of rs->nrequests++ (a plain, unlocked
\* read-modify-write: its load and its store are separate steps).
RidMint(w) ==
    /\ pc[w] = "rid_mint"
    /\ rs' = MintAndAdd(rs, loc[w].bucket_idx, loc[w].trunc_buf, loc[w].hash)
    /\ loc' = [loc EXCEPT ![w].entry = Len(rs'.handles[loc[w].bucket_idx]),
                          ![w].tmp = rs.nrequests]
    /\ pc' = [pc EXCEPT ![w] = "nreq_store"]
    /\ UNCHANGED <<file, tp, lc, nthreads, chunk, src, sm, mainpc, rt, pg, gp, hist, out>>

\* The store of rs->nrequests++.
NreqStore(w) ==
    /\ pc[w] = "nreq_store"
    /\ rs' = [rs EXCEPT !.nrequests = loc[w].tmp + 1]
    /\ loc' = [loc EXCEPT ![w].tmp = NULL]
    /\ pc' = [pc EXCEPT ![w] = "rs_unlock"]
    /\ UNCHANGED <<file, tp, lc, nthreads, chunk, src, sm, mainpc, rt, pg, gp, hist, out>>

\* finish: pthread_spin_unlock(bucket_lock); return entry->rid.
RsUnlock(w) ==
    /\ pc[w] = "rs_unlock"
    /\ LET rid == rs.handles[loc[w].bucket_idx][loc[w].entry].rid
       IN  /\ loc' = [loc EXCEPT ![w].rid = rid, ![w].entry = NULL]
           /\ hist' = [hist EXCEPT !.returns = @ \cup {[tid |-> w, data |-> loc[w].trunc_buf, rid |-> rid]}]
    /\ rs' = [rs EXCEPT !.locks = Drop(@, loc[w].bucket_idx)]
    /\ pc' = [pc EXCEPT ![w] = "sm_lock"]
    /\ UNCHANGED <<file, tp, lc, nthreads, chunk, src, sm, mainpc, rt, pg, gp, out>>

(***************************************************************************)
(* session.c: amend_session_map_entry                                      *)
(***************************************************************************)
\* ck_spinlock_lock(lock)
SmLock(w) ==
    /\ pc[w] = "sm_lock"
    /\ loc[w].sm_bucket_idx \notin DOMAIN sm.locks
    /\ sm' = [sm EXCEPT !.locks = Put(@, loc[w].sm_bucket_idx, w)]
    /\ pc' = [pc EXCEPT ![w] = "sm_amend"]
    /\ UNCHANGED <<file, tp, lc, nthreads, chunk, src, loc, rs, mainpc, rt, pg, gp, hist, out>>

\* The entry is created or extended, the lock is released, and the worker
\* is back at the top of its loop.
SmAmend(w) ==
    /\ pc[w] = "sm_amend"
    /\ sm' = amend_session_map_entry(sm, loc[w].sm_bucket_idx, loc[w].sid,
                                     loc[w].ts, loc[w].rid)
    /\ hist' = [hist EXCEPT !.amends = @ (+) SetToBag({
                   [line |-> loc[w].line, sfields |-> loc[w].sfields,
                    sid |-> loc[w].sid, bucket_idx |-> loc[w].sm_bucket_idx,
                    ts |-> loc[w].ts, rid |-> loc[w].rid]})]
    /\ loc' = [loc EXCEPT ![w] = NoLocals]
    /\ pc' = [pc EXCEPT ![w] = "scan"]
    /\ UNCHANGED <<file, tp, lc, nthreads, chunk, src, rs, mainpc, rt, pg, gp, out>>

\* The same step of a worker that calls the amend_session_map_entry of
\* apathy.c.
SmAmendApathy(w) ==
    /\ pc[w] = "sm_amend"
    /\ \E handle \in ApathyAmendBucket(At(sm.handles, loc[w].sm_bucket_idx, <<>>),
                                       loc[w].sid, loc[w].ts, loc[w].rid) :
          sm' = [sm EXCEPT !.handles = Put(@, loc[w].sm_bucket_idx, handle),
                           !.locks = Drop(@, loc[w].sm_bucket_idx)]
    /\ hist' = [hist EXCEPT !.amends = @ (+) SetToBag({
                   [line |-> loc[w].line, sfields |-> loc[w].sfields,
                    sid |-> loc[w].sid, bucket_idx |-> loc[w].sm_bucket_idx,
                    ts |-> loc[w].ts, rid |-> loc[w].rid]})]
    /\ loc' = [loc EXCEPT ![w] = NoLocals]
    /\ pc' = [pc EXCEPT ![w] = "scan"]
    /\ UNCHANGED <<file, tp, lc, nthreads, chunk, src, rs, mainpc, rt, pg, gp, out>>

\* finish_work_ctx joining only the first thread.
FinishWorkCtx_first ==
    /\ mainpc = "finish_work_ctx"
    /\ pc[0] = "exit"
    /\ mainpc' = "gen_request_table"
    /\ UNCHANGED <<file, tp, lc, nthreads, chunk, pc, src, loc, rs, sm, rt, pg, gp, hist, out>>

\* finish_work_ctx: every pthread_join has returned.
FinishWorkCtx ==
    /\ mainpc = "finish_work_ctx"
    /\ \A w \in Workers : pc[w] = "exit"
    /\ mainpc' = "gen_request_table"
    /\ UNCHANGED <<file, tp, lc, nthreads, chunk, pc, src, loc, rs, sm, rt, pg, gp, hist, out>>

(***************************************************************************)
(* request.c: gen_request_table                                            *)
(***************************************************************************)
\* Every entry of every bucket, in bucket order (HASH_ITER inside a bucket
\* follows insertion order).
RECURSIVE BucketEntries(_, _)
BucketEntries(handles, buckets) ==
    IF buckets = {} THEN <<>>
    ELSE LET b == MinOf(buckets)
         IN  [k \in 1..Len(handles[b]) |-> <<b, k>>]
             \o BucketEntries(handles, buckets \ {b})

RequestEntries(set) ==
    LET at == BucketEntries(set.handles, DOMAIN set.handles)
    IN  [k \in 1..Len(at) |-> set.handles[at[k][1]][at[k][2]]]

\* rt->requests[rid] = entry->data; rt->hashes[rid] = entry->hash for every
\* entry, on arrays of rs->nrequests zeroed slots.  Slot rid is element
\* rid + 1; a slot never written holds NULL.
gen_request_table(set) ==
    LET es == RequestEntries(set)
        Last(rid) == CHOOSE k \in 1..Len(es) :
                        /\ es[k].rid = rid
                        /\ \A j \in (k + 1)..Len(es) : es[j].rid # rid
        Written(rid) == \E k \in 1..Len(es) : es[k].rid = rid
    IN  [nrequests |-> set.nrequests,
         requests |-> [i \in 1..set.nrequests |->
                         IF Written(i - 1) THEN es[Last(i - 1)].data ELSE NULL],
         hashes |-> [i \in 1..set.nrequests |->
                         IF Written(i - 1) THEN es[Last(i - 1)].hash ELSE NULL]]

\* The writes of gen_request_table that fall outside the arrays.
OutOfTable(set) ==
    LET es == RequestEntries(set)
    IN  {k \in 1..Len(es) : es[k].rid >= set.nrequests}

\* A write outside the calloc'ed arrays is undefined behaviour: the run is
\* not followed further.
GenRequestTable ==
    /\ mainpc = "gen_request_table"
    /\ IF OutOfTable(rs) # {}
       THEN /\ mainpc' = "undefined"
            /\ rt' = rt
       ELSE /\ mainpc' = "init_path_graph"
            /\ rt' = gen_request_table(rs)
    /\ UNCHANGED <<file, tp, lc, nthreads, chunk, pc, src, loc, rs, sm, pg, gp, hist, out>>

(***************************************************************************)
(* path_graph.c                                                            *)
(***************************************************************************)
PATH_GRAPH_VERTEX_INIT_LIM_NEDGES == 8
\* UINT64_MAX, the request id that is no request id
REQUEST_ID_INVAL == -1

NULL_VERTEX ==
    [rid |-> REQUEST_ID_INVAL, nedges |-> 0, lim_nedges |-> 0, edges |-> <<>>,
     total_nhits_in |-> 0, total_nhits_out |-> 0, min_depth |-> 0]

is_null_vertex(v) == v.rid = REQUEST_ID_INVAL

init_path_graph(table) ==
    [total_nedges |-> 0, total_nhits |-> 0, nvertices |-> 0,
     capvertices |-> table.nrequests,
     vertices |-> [v \in 1..table.nrequests |-> NULL_VERTEX]]

\* A double that holds a ratio of integers, in lowest terms.
RECURSIVE GCD(_, _)
GCD(a, b) == IF b = 0 THEN a ELSE GCD(b, a % b)
Ratio(num, den) ==
    LET g == GCD(IF num < 0 THEN -num ELSE num, den)
    IN  <<num \div g, den \div g>>

\* An average that weighs the old one by the hit count after the update.
NextCma_late(duration, nhits, duration_cma) ==
    Ratio(duration * duration_cma[2] + (nhits + 1) * duration_cma[1],
          duration_cma[2] * (nhits + 2))

\* (duration + (double)edge->nhits * duration_cma) / ((double)edge->nhits + 1)
NextCma(duration, nhits, duration_cma) ==
    Ratio(duration * duration_cma[2] + nhits * duration_cma[1],
          duration_cma[2] * (nhits + 1))

\* A search that finds no edge.
FindEdge_none(vertex, edge_rid) == 0

\* The index of the edge of vertex to edge_rid, 0 if the loop finds none.
FindEdge(vertex, edge_rid) ==
    IF \E k \in 1..vertex.nedges : vertex.edges[k].rid = edge_rid
    THEN MinOf({k \in 1..vertex.nedges : vertex.edges[k].rid = edge_rid})
    ELSE 0

\* A hit on an existing edge that leaves total_nhits_out as it was.
HitEdge_noout(vertex, k, duration) ==
    [vertex EXCEPT !.edges[k].duration_cma =
                       NextCma(duration, vertex.edges[k].nhits, @),
                   !.edges[k].nhits = @ + 1]

\* The vertex after a hit on its existing edge k (lines 56-62).
HitEdge(vertex, k, duration) ==
    [vertex EXCEPT !.edges[k].duration_cma =
                       NextCma(duration, vertex.edges[k].nhits, @),
                   !.edges[k].nhits = @ + 1,
                   !.total_nhits_out = @ + 1]

\* A new edge set without the resize of the edge buffer.
AddEdge_nogrow(vertex, edge) ==
    [vertex EXCEPT !.edges = Append(@, edge),
                   !.nedges = @ + 1,
                   !.total_nhits_out = @ + 1]

\* The vertex after a new edge is set at index nedges (lines 68-87).
AddEdge(vertex, edge) ==
    [vertex EXCEPT !.lim_nedges = IF vertex.nedges = @ THEN 2 * @ ELSE @,
                   !.edges = Append(@, edge),
                   !.nedges = @ + 1,
                   !.total_nhits_out = @ + 1]

\* The vertex after amend_path_graph_vertex.
AmendVertex(vertex, depth, rid, edge_rid, ts, edge_ts) ==
    LET first == [rid |-> edge_rid, nhits |-> 1,
                  duration_cma |-> Ratio(TsDiff(edge_ts, ts), 1)]
        k == FindEdge(vertex, edge_rid)
    IN  IF is_null_vertex(vertex)
        THEN [rid |-> rid,
              lim_nedges |-> PATH_GRAPH_VERTEX_INIT_LIM_NEDGES,
              edges |-> IF edge_rid # REQUEST_ID_INVAL THEN <<first>> ELSE <<>>,
              nedges |-> IF edge_rid # REQUEST_ID_INVAL THEN 1 ELSE vertex.nedges,
              total_nhits_out |-> IF edge_rid # REQUEST_ID_INVAL
                                  THEN vertex.total_nhits_out + 1
                                  ELSE vertex.total_nhits_out,
              total_nhits_in |-> vertex.total_nhits_in + 1,
              min_depth |-> depth]
        ELSE LET hit == [vertex EXCEPT !.total_nhits_in = @ + 1,
                                       !.min_depth = Min(depth, @)]
             IN  IF edge_rid = REQUEST_ID_INVAL THEN hit
                 ELSE IF k # 0
                 THEN HitEdge(hit, k, TsDiff(edge_ts, ts))
                 ELSE AddEdge(hit, first)

amend_path_graph_vertex(graph, depth, rid, edge_rid, ts, edge_ts) ==
    LET vertex == graph.vertices[rid + 1]
        new_edge == edge_rid # REQUEST_ID_INVAL
                    /\ (is_null_vertex(vertex) \/ FindEdge(vertex, edge_rid) = 0)
    IN  [graph EXCEPT
           !.vertices[rid + 1] = AmendVertex(vertex, depth, rid, edge_rid, ts, edge_ts),
           !.total_nedges = IF new_edge THEN @ + 1 ELSE @,
           !.total_nhits = @ + 1,
           !.nvertices = IF is_null_vertex(vertex) THEN @ + 1 ELSE @]

cmp_session_request(r1, r2) ==
    IF r1.ts = r2.ts THEN 0
    ELSE IF TsGreater(r1.ts, r2.ts) THEN 1 ELSE 0

cmp_path_graph_vertex_by_hits(v1, v2) ==
    LET score1 == v1.total_nhits_in + v1.total_nhits_out
        score2 == v2.total_nhits_in + v2.total_nhits_out
    IN  IF v1.min_depth < v2.min_depth THEN -1
        ELSE IF v1.min_depth > v2.min_depth THEN 1
        ELSE IF score1 = score2 THEN 0
        ELSE IF score1 < score2 THEN 1 ELSE 0

cmp_path_graph_edge_by_hits(e1, e2) ==
    IF e1.nhits = e2.nhits THEN 0
    ELSE IF e1.nhits < e2.nhits THEN 1 ELSE 0

\* The call of the comparison function that the pointer compar names.
Call(compar, p1, p2) ==
    CASE compar = "cmp_session_request" -> cmp_session_request(p1, p2)
      [] compar = "cmp_path_graph_vertex_by_hits" -> cmp_path_graph_vertex_by_hits(p1, p2)
      [] compar = "cmp_path_graph_edge_by_hits" -> cmp_path_graph_edge_by_hits(p1, p2)

\* The orders in which a sort can leave the elements idxs of base: each
\* element is followed only by elements that le does not put before it.
RECURSIVE Arrangements(_, _, _)
Arrangements(base, idxs, le) ==
    IF idxs = {} THEN {<<>>}
    ELSE UNION {{<<base[i]>> \o rest : rest \in Arrangements(base, idxs \ {i}, le)} :
                   i \in {i \in idxs : \A j \in idxs : le[i][j]}}

\* qsort(base, nmemb, size, compar): the arrangements of the first nmemb
\* elements a sort can leave, those in which compar reports no element
\* greater than a later one.  The order of elements that compare equal is
\* unspecified.
qsort(base, nmemb, compar) ==
    LET le == [i \in 1..nmemb |-> [j \in 1..nmemb |-> Call(compar, base[i], base[j]) <= 0]]
    IN  {sorted \o SubSeq(base, nmemb + 1, Len(base)) :
            sorted \in Arrangements(base, 1..nmemb, le)}

\* A depth that advances at every position, repeated request or not.
NextDepth_always(depth, rid, edge_rid) == depth + 1

\* depth = rid == edge_rid ? depth : depth + 1
NextDepth(depth, rid, edge_rid) == IF rid = edge_rid THEN depth ELSE depth + 1

\* init_path_graph, and the entry of gen_path_graph: entries lists the
\* session entries in the order of the two loops (bucket_idx, HASH_ITER).
InitPathGraph ==
    /\ mainpc = "init_path_graph"
    /\ pg' = init_path_graph(rt)
    /\ gp' = [entries |-> BucketEntries(sm.handles, DOMAIN sm.handles),
              n |-> 1, r |-> 0, depth |-> 1, v |-> 0]
    /\ mainpc' = "qsort_requests"
    /\ UNCHANGED <<file, tp, lc, nthreads, chunk, pc, src, loc, rs, sm, rt, hist, out>>

\* The session entry the outer loops of gen_path_graph are at.
EntryAt(map, g) == map.handles[g.entries[g.n][1]][g.entries[g.n][2]]

\* The sort without "uint64_t depth = 1": depth runs on from the session
\* before.
QsortRequests_keepdepth ==
    /\ mainpc = "qsort_requests"
    /\ IF gp.n > Len(gp.entries)
       THEN /\ mainpc' = "qsort_vertices"
            /\ UNCHANGED <<sm, gp>>
       ELSE LET entry == EntryAt(sm, gp)
            IN  /\ \E sorted \in qsort(entry.requests, entry.nrequests, "cmp_session_request") :
                      sm' = [sm EXCEPT !.handles[gp.entries[gp.n][1]][gp.entries[gp.n][2]].requests
                                          = sorted]
                /\ gp' = [gp EXCEPT !.r = 0]
                /\ mainpc' = "amend_vertex"
    /\ UNCHANGED <<file, tp, lc, nthreads, chunk, pc, src, loc, rs, rt, pg, hist, out>>

\* qsort(entry->requests, ...); depth = 1; or the end of the two loops.
QsortRequests ==
    /\ mainpc = "qsort_requests"
    /\ IF gp.n > Len(gp.entries)
       THEN /\ mainpc' = "qsort_vertices"
            /\ UNCHANGED <<sm, gp>>
       ELSE LET entry == EntryAt(sm, gp)
            IN  /\ \E sorted \in qsort(entry.requests, entry.nrequests, "cmp_session_request") :
                      sm' = [sm EXCEPT !.handles[gp.entries[gp.n][1]][gp.entries[gp.n][2]].requests
                                          = sorted]
                /\ gp' = [gp EXCEPT !.r = 0, !.depth = 1]
                /\ mainpc' = "amend_vertex"
    /\ UNCHANGED <<file, tp, lc, nthreads, chunk, pc, src, loc, rs, rt, pg, hist, out>>

\* One iteration of the loop over r: amend_path_graph_vertex and the update
\* of depth.  A vertex outside pg->vertices is undefined behaviour.
AmendPathGraphVertex ==
    /\ mainpc = "amend_vertex"
    /\ LET entry == EntryAt(sm, gp)
           r == gp.r
           e == gp.r + 1
           rid == entry.requests[r + 1].rid
           ts == entry.requests[r + 1].ts
           edge_rid == IF e < entry.nrequests THEN entry.requests[e + 1].rid
                       ELSE REQUEST_ID_INVAL
           edge_ts == IF e < entry.nrequests THEN entry.requests[e + 1].ts ELSE <<0, 0>>
       IN  IF r >= entry.nrequests
           THEN /\ gp' = [gp EXCEPT !.n = @ + 1]
                /\ mainpc' = "qsort_requests"
                /\ pg' = pg
           ELSE IF rid >= pg.capvertices
           THEN /\ mainpc' = "undefined"
                /\ UNCHANGED <<pg, gp>>
           ELSE /\ pg' = amend_path_graph_vertex(pg, gp.depth, rid, edge_rid, ts, edge_ts)
                /\ gp' = [gp EXCEPT !.r = @ + 1,
                                    !.depth = NextDepth(@, rid, edge_rid)]
                /\ mainpc' = mainpc
    /\ UNCHANGED <<file, tp, lc, nthreads, chunk, pc, src, loc, rs, sm, rt, hist, out>>

\* qsort(pg->vertices, pg->nvertices, ..., "cmp_path_graph_vertex_by_hits")
QsortVertices ==
    /\ mainpc = "qsort_vertices"
    /\ \E sorted \in qsort(pg.vertices, pg.nvertices, "cmp_path_graph_vertex_by_hits") :
          pg' = [pg EXCEPT !.vertices = sorted]
    /\ gp' = [gp EXCEPT !.v = 0]
    /\ mainpc' = "qsort_edges"
    /\ UNCHANGED <<file, tp, lc, nthreads, chunk, pc, src, loc, rs, sm, rt, hist, out>>

\* One iteration of the last loop of gen_path_graph, or its end.
QsortEdges ==
    /\ mainpc = "qsort_edges"
    /\ IF gp.v >= pg.nvertices
       THEN /\ mainpc' = "done"
            /\ UNCHANGED <<pg, gp>>
       ELSE LET vertex == pg.vertices[gp.v + 1]
            IN  /\ \E sorted \in qsort(vertex.edges, vertex.nedges,
                                       "cmp_path_graph_edge_by_hits") :
                      pg' = [pg EXCEPT !.vertices[gp.v + 1].edges = sorted]
                /\ gp' = [gp EXCEPT !.v = @ + 1]
                /\ mainpc' = mainpc
    /\ UNCHANGED <<file, tp, lc, nthreads, chunk, pc, src, loc, rs, sm, rt, hist, out>>

(***************************************************************************)
(* dot.c: output_dot_graph                                                 *)
(***************************************************************************)
\* One pass of the while loop that declares the nodes, from the loop state
\* st (v, prev_depth, cur_depth, first, open_subgraph, subgraph_id and the
\* lines written) to the state at the end of the loop.  No vertex of the
\* array is null.
RECURSIVE DeclareNodes(_, _, _)
DeclareNodes(graph, table, st) ==
    IF st.v >= graph.capvertices THEN st
    ELSE LET vertex == graph.vertices[st.v + 1]
             opened == IF st.open_subgraph = 1
                       THEN [st EXCEPT !.out = Append(@, [line |-> "subgraph",
                                                          id |-> st.subgraph_id]),
                                       !.open_subgraph = 0,
                                       !.subgraph_id = @ + 1]
                       ELSE st
             ranked == IF opened.first = 1
                       THEN [opened EXCEPT !.cur_depth = vertex.min_depth,
                                           !.prev_depth = vertex.min_depth,
                                           !.first = 0]
                       ELSE [opened EXCEPT !.prev_depth = opened.cur_depth,
                                           !.cur_depth = vertex.min_depth]
             node == [line |-> "node", rid |-> vertex.rid,
                      label |-> table.requests[vertex.rid + 1],
                      nhits_in |-> vertex.total_nhits_in,
                      nhits_out |-> vertex.total_nhits_out]
             declared == IF ranked.prev_depth # ranked.cur_depth
                         THEN ranked
                         ELSE [ranked EXCEPT !.out = Append(@, node), !.v = @ + 1]
             closed == IF declared.prev_depth # declared.cur_depth
                       THEN [declared EXCEPT !.out = Append(@, [line |-> "close"]),
                                             !.open_subgraph = 1]
                       ELSE declared
         IN  DeclareNodes(graph, table, closed)

\* The style of the edge e of vertex: the destination's depth is read at
\* pg->vertices[edge_rid].
EdgeStyle(graph, vertex, edge) ==
    LET edge_vertex == graph.vertices[edge.rid + 1]
    IN  IF vertex.rid = edge.rid THEN "dotted"
        ELSE IF vertex.min_depth <= edge_vertex.min_depth THEN "solid"
        ELSE "dashed"

\* The lines the two for loops that link the nodes write, from vertex v on.
RECURSIVE LinkNodes(_, _)
LinkNodes(graph, v) ==
    IF v >= graph.capvertices THEN <<>>
    ELSE LET vertex == graph.vertices[v + 1]
             links == [e \in 1..vertex.nedges |->
                          [line |-> "edge", rid |-> vertex.rid, edge_rid |-> vertex.edges[e].rid,
                           nhits |-> vertex.edges[e].nhits,
                           style |-> EdgeStyle(graph, vertex, vertex.edges[e])]]
         IN  (IF is_null_vertex(vertex) THEN <<>> ELSE links) \o LinkNodes(graph, v + 1)

\* output_dot_graph without the closing line after the while loop.
output_dot_graph_noclose(graph, table) ==
    LET st == DeclareNodes(graph, table,
                  [v |-> 0, prev_depth |-> 0, cur_depth |-> 0, first |-> 1,
                   open_subgraph |-> 1, subgraph_id |-> 0, out |-> <<>>])
    IN  st.out \o LinkNodes(graph, 0)

\* The lines output_dot_graph writes between "digraph apathy_graph {" and
\* the last "}".
output_dot_graph(graph, table) ==
    LET st == DeclareNodes(graph, table,
                  [v |-> 0, prev_depth |-> 0, cur_depth |-> 0, first |-> 1,
                   open_subgraph |-> 1, subgraph_id |-> 0, out |-> <<>>])
        nodes == IF st.open_subgraph = 0 THEN Append(st.out, [line |-> "close"]) ELSE st.out
    IN  nodes \o LinkNodes(graph, 0)

\* main: output_dot_graph(out, &pg, &rt).  With a null vertex in the array
\* the while loop never advances v (continue at dot.c:102-103); a
\* destination that is a null vertex fails the assertion at dot.c:180.
OutputDotGraph ==
    /\ mainpc = "done"
    /\ IF \E v \in 1..pg.capvertices : is_null_vertex(pg.vertices[v])
       THEN /\ mainpc' = "output_spins"
            /\ out' = out
       ELSE /\ mainpc' = "exit"
            /\ out' = output_dot_graph(pg, rt)
    /\ UNCHANGED <<file, tp, lc, nthreads, chunk, pc, src, loc, rs, sm, rt, pg, gp, hist>>

Next ==
    \/ \E w \in Workers : Scan(w)
    \/ \E w \in Workers : RsLock(w)
    \/ \E w \in Workers : RidLock(w)
    \/ \E w \in Workers : RidMint(w)
    \/ \E w \in Workers : NreqStore(w)
    \/ \E w \in Workers : RsUnlock(w)
    \/ \E w \in Workers : SmLock(w)
    \/ \E w \in Workers : SmAmend(w)
    \/ FinishWorkCtx
    \/ GenRequestTable
    \/ InitPathGraph
    \/ QsortRequests
    \/ AmendPathGraphVertex
    \/ QsortVertices
    \/ QsortEdges
    \/ OutputDotGraph

Spec == Init /\ [][Next]_vars

\* Fair scheduling: a worker that can take a step (it is not waiting for a
\* lock another worker holds) eventually takes one, and so does the main
\* thread.
WorkerStep(w) ==
    /\ w \in Workers
    /\ \/ Scan(w) \/ RsLock(w) \/ RidLock(w) \/ RidMint(w)
       \/ NreqStore(w) \/ RsUnlock(w) \/ SmLock(w) \/ SmAmend(w)

MainStep ==
    \/ FinishWorkCtx \/ GenRequestTable \/ InitPathGraph \/ QsortRequests
    \/ AmendPathGraphVertex \/ QsortVertices \/ QsortEdges

\* The enabling condition of WorkerStep(w), written out: a worker in its loop
\* can always step (pthread_create has run before finish_work_ctx), a worker
\* at pthread_mutex_lock can step when the mutex is free, and a worker that
\* has returned cannot step.
Runnable(w) ==
    /\ w \in Workers
    /\ \/ pc[w] = "scan" /\ mainpc = "finish_work_ctx"
       \/ pc[w] = "rs_lock" /\ loc[w].bucket_idx \notin DOMAIN rs.locks
       \/ pc[w] = "rid_lock" /\ rs.rid_lock = NULL
       \/ pc[w] \in {"rid_mint", "nreq_store", "rs_unlock", "sm_amend"}
       \/ pc[w] = "sm_lock" /\ loc[w].sm_bucket_idx \notin DOMAIN sm.locks

\* A step of worker w: every action of WorkerStep(w) changes pc[w] or src[w],
\* and no other action does.
Moved(w) == w \in Workers /\ <<pc[w], src[w]>>' # <<pc[w], src[w]>>

\* Weak fairness of WorkerStep(w), with ENABLED written as Runnable(w).
WorkerFair(w) == []<>(~Runnable(w)) \/ []<><<Moved(w)>>_<<pc, src>>

FairSpec ==
    /\ Spec
    /\ \A w \in 0..(MaxThreads - 1) : WorkerFair(w)
    /\ WF_vars(MainStep)

\* The program whose workers call the amend_session_map_entry of apathy.c.
NextApathy ==
    \/ \E w \in Workers : Scan(w)
    \/ \E w \in Workers : RsLock(w)
    \/ \E w \in Workers : RidLock(w)
    \/ \E w \in Workers : RidMint(w)
    \/ \E w \in Workers : NreqStore(w)
    \/ \E w \in Workers : RsUnlock(w)
    \/ \E w \in Workers : SmLock(w)
    \/ \E w \in Workers : SmAmendApathy(w)
    \/ FinishWorkCtx
    \/ GenRequestTable
    \/ InitPathGraph
    \/ QsortRequests
    \/ AmendPathGraphVertex
    \/ QsortVertices
    \/ QsortEdges
    \/ OutputDotGraph

SpecApathy == Init /\ [][NextApathy]_vars

(***************************************************************************)
(* truncate.c on its own: one call of truncate_raw_request on a raw        *)
(* request and a pattern list, and a second call on what the first wrote   *)
(***************************************************************************)
\* The longest raw request and the longest pattern list of these runs.
MaxRawLen == 5
MaxPatterns == 2

\* x and y, the bytes of the raw requests.
RawBytes == {120, 121}
RawRequests == UNION {[1..k -> RawBytes] : k \in 0..MaxRawLen}

\* -t patterns: x=$, y=$ and xy=$ (no alias holds a byte of a pattern).
TruncateEntries ==
    {[pattern |-> <<120>>, alias |-> <<36>>],
     [pattern |-> <<121>>, alias |-> <<36>>],
     [pattern |-> <<120, 121>>, alias |-> <<36>>]}
PatternLists == UNION {[1..k -> TruncateEntries] : k \in 0..MaxPatterns}

\* One caller (the locals of add_request_set_entry), nothing else running.
InitTruncate ==
    /\ file = <<>>
    /\ tp \in PatternLists
    /\ lc = Unset
    /\ nthreads = 1
    /\ chunk = [tid \in {0} |-> Chunk(0, 1, tid)]
    /\ pc = [tid \in {0} |-> "truncate"]
    /\ src = [tid \in {0} |-> NULL]
    /\ \E raw_buf \in RawRequests :
          loc = [tid \in {0} |-> [raw_buf |-> raw_buf, trunc_buf |-> <<>>]]
    /\ rs = init_request_set
    /\ sm = init_session_map
    /\ mainpc = "finish_work_ctx"
    /\ rt = Unset
    /\ pg = Unset
    /\ gp = Unset
    /\ hist = [tokenized |-> EmptyBag, returns |-> {}, amends |-> EmptyBag]
    /\ out = <<>>

\* trunc_size = truncate_raw_request(trunc_buf, ..., raw_buf, raw_size, tp)
Truncate(w) ==
    /\ pc[w] = "truncate"
    /\ loc' = [loc EXCEPT ![w].trunc_buf = truncate_raw_request(loc[w].raw_buf, tp)]
    /\ pc' = [pc EXCEPT ![w] = "truncated"]
    /\ UNCHANGED <<file, tp, lc, nthreads, chunk, src, rs, sm, mainpc, rt, pg, gp, hist, out>>

\* The same call with the bytes of trunc_buf as the raw request.
TruncateAgain(w) ==
    /\ pc[w] = "truncated"
    /\ loc' = [loc EXCEPT ![w].raw_buf = loc[w].trunc_buf,
                          ![w].trunc_buf = truncate_raw_request(loc[w].trunc_buf, tp)]
    /\ pc' = [pc EXCEPT ![w] = "truncated_again"]
    /\ UNCHANGED <<file, tp, lc, nthreads, chunk, src, rs, sm, mainpc, rt, pg, gp, hist, out>>

NextTruncate ==
    \/ \E w \in Workers : Truncate(w)
    \/ \E w \in Workers : TruncateAgain(w)

SpecTruncate == InitTruncate /\ [][NextTruncate]_vars

(***************************************************************************)
(* truncate.c step by step: the pattern search of truncate_raw_request and *)
(* each pass of its do-while loop, writing into the trunc_buf that         *)
(* add_request_set_entry reserves                                          *)
(***************************************************************************)
\* The longest raw request and the longest pattern list of these runs.
MaxLoopRawLen == 9
MaxLoopPatterns == 1

REQUEST_NTRUNCS_MAX == 8

LoopRequests == UNION {[1..k -> RawBytes] : k \in 0..MaxLoopRawLen}

\* -t patterns: $ = x, $aaaaaaaaa = x, $ = x*, $ = xy
LoopEntries ==
    {[pattern |-> <<120>>, alias |-> <<36>>],
     [pattern |-> <<120>>, alias |-> <<36, 97, 97, 97, 97, 97, 97, 97, 97, 97>>],
     [pattern |-> <<120, STAR>>, alias |-> <<36>>],
     [pattern |-> <<120, 121>>, alias |-> <<36>>]}
LoopPatternLists == UNION {[1..k -> LoopEntries] : k \in 0..MaxLoopPatterns}

\* tp->max_alias_size as init_truncate_patterns leaves it.
RECURSIVE max_alias_size(_)
max_alias_size(patterns) ==
    IF patterns = <<>> THEN 0
    ELSE LET rest == max_alias_size(SubSeq(patterns, 1, Len(patterns) - 1))
             alias_size == Len(patterns[Len(patterns)].alias)
         IN  IF alias_size > rest THEN alias_size ELSE rest

\* sizeof(trunc_buf) - 1 in add_request_set_entry
TruncBufSize(req_size, patterns) ==
    req_size + max_alias_size(patterns) * REQUEST_NTRUNCS_MAX

\* One caller at the call of truncate_raw_request; raw_off is how far the
\* function has moved its raw_buf pointer.
InitTruncateLoop ==
    /\ file = <<>>
    /\ tp \in LoopPatternLists
    /\ lc = Unset
    /\ nthreads = 1
    /\ chunk = [tid \in {0} |-> Chunk(0, 1, tid)]
    /\ pc = [tid \in {0} |-> "truncate"]
    /\ src = [tid \in {0} |-> NULL]
    /\ \E raw_buf \in LoopRequests :
          loc = [tid \in {0} |->
                    [raw_buf |-> raw_buf, req_size |-> Len(raw_buf), raw_off |-> 0,
                     trunc_buf |-> <<>>, pattern_idx |-> -1, match |-> REG_NOMATCH]]
    /\ rs = init_request_set
    /\ sm = init_session_map
    /\ mainpc = "finish_work_ctx"
    /\ rt = Unset
    /\ pg = Unset
    /\ gp = Unset
    /\ hist = [tokenized |-> EmptyBag, returns |-> {}, amends |-> EmptyBag]
    /\ out = <<>>

\* The for loop over the patterns, and the copy when none matches.
TruncateFind(w) ==
    /\ pc[w] = "truncate"
    /\ LET l == loc[w]
           hits == {p \in 1..Len(tp) :
                       get_regex_matches(tp[p].pattern, l.raw_buf) # REG_NOMATCH}
       IN  IF hits = {}
           THEN /\ loc' = [loc EXCEPT ![w].trunc_buf = l.raw_buf]
                /\ pc' = [pc EXCEPT ![w] = "truncated"]
           ELSE LET pattern_idx == CHOOSE p \in hits : \A q \in hits : p <= q
                IN  /\ loc' = [loc EXCEPT
                              ![w].pattern_idx = pattern_idx,
                              ![w].match = get_regex_matches(tp[pattern_idx].pattern,
                                                             l.raw_buf)]
                    /\ pc' = [pc EXCEPT ![w] = "truncate_loop"]
    /\ UNCHANGED <<file, tp, lc, nthreads, chunk, src, rs, sm, mainpc, rt, pg, gp, hist, out>>

\* One pass of the do-while loop and its test.  The two memcpy calls
\* write start_offset + alias_size bytes at trunc_buf + trunc_size; when
\* they run past the end of trunc_buf the behaviour is undefined.
TruncateStep(w) ==
    /\ pc[w] = "truncate_loop"
    /\ LET l == loc[w]
           p == tp[l.pattern_idx]
           raw_buf == SubSeq(l.raw_buf, l.raw_off + 1, Len(l.raw_buf))
           start_offset == l.match.rm_so
           end_offset == l.match.rm_eo
           trunc_buf == l.trunc_buf \o SubSeq(raw_buf, 1, start_offset) \o p.alias
           next == get_regex_matches(p.pattern,
                                     SubSeq(raw_buf, end_offset + 1, Len(raw_buf)))
       IN  /\ loc' = [loc EXCEPT ![w].trunc_buf = trunc_buf,
                                 ![w].raw_off = l.raw_off + end_offset,
                                 ![w].match = next]
           /\ pc' = [pc EXCEPT ![w] =
                        IF Len(trunc_buf) > TruncBufSize(l.req_size, tp) + 1
                        THEN "undefined"
                        ELSE IF next = REG_NOMATCH THEN "truncated"
                        ELSE "truncate_loop"]
    /\ UNCHANGED <<file, tp, lc, nthreads, chunk, src, rs, sm, mainpc, rt, pg, gp, hist, out>>

NextTruncateLoop ==
    \/ \E w \in Workers : TruncateFind(w)
    \/ \E w \in Workers : TruncateStep(w)

SpecTruncateLoop == InitTruncateLoop /\ [][NextTruncateLoop]_vars

(***************************************************************************)
(* time.c on its own: two calendar timestamps written out as text and      *)
(* parsed                                                                  *)
(***************************************************************************)
\* The last year of the timestamps.
MaxYear == 1971

\* Calendar dates <<year, month, day>> at the ends of months and years.
IsLeap(y) == y % 4 = 0 /\ (y % 100 # 0 \/ y % 400 = 0)
DaysInMonth(y, m) ==
    IF m = 2 THEN (IF IsLeap(y) THEN 29 ELSE 28)
    ELSE IF m \in {4, 6, 9, 11} THEN 30 ELSE 31
Dates ==
    {dt \in (EPOCH_YEAR..MaxYear) \X {1, 2, 12} \X {1, 28, 29, 30, 31} :
        dt[3] <= DaysInMonth(dt[1], dt[2])}
\* Times of day <<hour, min, sec, ms>>.
Clocks == {<<0, 0, 0, 0>>, <<0, 0, 1, 0>>, <<0, 0, 59, 0>>, <<23, 59, 59, 999>>}
Calendar == {dt \o ck : dt \in Dates, ck \in Clocks}

\* n in k decimal digits.
RECURSIVE Digits(_, _)
Digits(n, k) == IF k = 0 THEN <<>> ELSE Digits(n \div 10, k - 1) \o <<ZERO + (n % 10)>>

\* "YYYY-MM-DD", "hh:mm:ss" and "YYYY-MM-DDThh:mm:ss.mmm" of a calendar value.
DateText(c) == Digits(c[1], 4) \o <<45>> \o Digits(c[2], 2) \o <<45>> \o Digits(c[3], 2)
TimeText(c) == Digits(c[4], 2) \o <<COLON>> \o Digits(c[5], 2) \o <<COLON>> \o Digits(c[6], 2)
Rfc3339Text(c) == DateText(c) \o <<84>> \o TimeText(c) \o <<DOT>> \o Digits(c[7], 3)

\* One caller holding two timestamps, nothing else running.
InitTime ==
    /\ file = <<>>
    /\ tp = NoPatterns
    /\ lc = Unset
    /\ nthreads = 1
    /\ chunk = [tid \in {0} |-> Chunk(0, 1, tid)]
    /\ pc = [tid \in {0} |-> "parse"]
    /\ src = [tid \in {0} |-> NULL]
    /\ \E a \in Calendar, b \in Calendar :
          loc = [tid \in {0} |-> [a |-> a, b |-> b, ts_a |-> <<0, 0>>, ts_b |-> <<0, 0>>,
                                  date_a |-> <<0, 0>>, time_a |-> <<0, 0>>]]
    /\ rs = init_request_set
    /\ sm = init_session_map
    /\ mainpc = "finish_work_ctx"
    /\ rt = Unset
    /\ pg = Unset
    /\ gp = Unset
    /\ hist = [tokenized |-> EmptyBag, returns |-> {}, amends |-> EmptyBag]
    /\ out = <<>>

\* The calls of rfc3339_with_ms_to_ms on the two timestamps, and of
\* date_to_ms and time_without_ms_to_ms on the date and the time of the first.
ParseTime(w) ==
    /\ pc[w] = "parse"
    /\ loc' = [loc EXCEPT
                  ![w].ts_a = ts_rfc3339_to_ms(Rfc3339Text(loc[w].a), 0),
                  ![w].ts_b = ts_rfc3339_to_ms(Rfc3339Text(loc[w].b), 0),
                  ![w].date_a = date_to_ms(DateText(loc[w].a), 0),
                  ![w].time_a = time_without_ms_to_ms(TimeText(loc[w].a), 0)]
    /\ pc' = [pc EXCEPT ![w] = "parsed"]
    /\ UNCHANGED <<file, tp, lc, nthreads, chunk, src, rs, sm, mainpc, rt, pg, gp, hist, out>>

NextTime == \E w \in Workers : ParseTime(w)

SpecTime == InitTime /\ [][NextTime]_vars

(***************************************************************************)
(* field.c on its own: one call of get_fields at the start of a buffer     *)
(***************************************************************************)
\* The longest buffer of these runs.
MaxLineLen == 4

\* space, tab, double quote, backslash, the letter a and newline
LineBytes == {SP, TAB, QUOTE, 92, 97, NL}
Lines == UNION {[1..k -> LineBytes] : k \in 0..MaxLineLen}

InitFields ==
    /\ file \in Lines
    /\ tp = NoPatterns
    /\ lc = Unset
    /\ nthreads = 1
    /\ chunk = [tid \in {0} |-> Chunk(Len(file), 1, tid)]
    /\ pc = [tid \in {0} |-> "get_fields"]
    /\ src = [tid \in {0} |-> 0]
    /\ loc = [tid \in {0} |-> NoLocals]
    /\ rs = init_request_set
    /\ sm = init_session_map
    /\ mainpc = "finish_work_ctx"
    /\ rt = Unset
    /\ pg = Unset
    /\ gp = Unset
    /\ hist = [tokenized |-> EmptyBag, returns |-> {}, amends |-> EmptyBag]
    /\ out = <<>>

\* nfields = get_fields(fvs, NFIELDS_MAX, src, skip_line_seek, &src), with
\* skip_line_seek = (log_view->src == src): 1 at the start of the buffer.
GetFields(w) ==
    /\ pc[w] = "get_fields"
    /\ LET skip_line_seek == (src[w] = 0)
           g == get_fields(file, NFIELDS_MAX, src[w], skip_line_seek)
       IN  /\ loc' = [loc EXCEPT ![w] = g]
           /\ src' = [src EXCEPT ![w] = g.endp]
           \* a line that starts after the NUL is read outside the
           \* st_size + 1 bytes of the mapping: the byte reads as 0 when the
           \* page goes on, the access faults when it does not
           /\ \E outcome \in (IF g.line > Len(file) THEN {"returned", "fault"}
                               ELSE {"returned"}) :
                 pc' = [pc EXCEPT ![w] = outcome]
    /\ UNCHANGED <<file, tp, lc, nthreads, chunk, rs, sm, mainpc, rt, pg, gp, hist, out>>

NextFields == \E w \in Workers : GetFields(w)

SpecFields == InitFields /\ [][NextFields]_vars

\* The first call of a worker whose chunk starts at any offset of the file
\* (chunk.start of init_work_ctx; worker 0 starts at offset 0).
InitChunkStart ==
    /\ file \in Lines
    /\ tp = NoPatterns
    /\ lc = Unset
    /\ nthreads = 1
    /\ chunk = [tid \in {0} |-> Chunk(Len(file), 1, tid)]
    /\ pc = [tid \in {0} |-> "get_fields"]
    /\ src \in [{0} -> 0..(IF file = <<>> THEN 0 ELSE Len(file) - 1)]
    /\ loc = [tid \in {0} |-> NoLocals]
    /\ rs = init_request_set
    /\ sm = init_session_map
    /\ mainpc = "finish_work_ctx"
    /\ rt = Unset
    /\ pg = Unset
    /\ gp = Unset
    /\ hist = [tokenized |-> EmptyBag, returns |-> {}, amends |-> EmptyBag]
    /\ out = <<>>

SpecChunkStart == InitChunkStart /\ [][NextFields]_vars

(***************************************************************************)
(* field.c: role inference and line configuration                          *)
(*                                                                         *)
(* The regular expressions are compiled with REG_EXTENDED | REG_NOSUB |    *)
(* REG_NEWLINE and matched against the bytes of one field of the first     *)
(* line.  get_fields ends a field at the newline, so no field holds one,   *)
(* and '^' anchors at the first byte of the field, '$' at its last.        *)
(***************************************************************************)
IsDigit(b) == b \in 48..57

\* [0-9]{n} at offset o of field s
DigitsAt(s, o, n) == \A k \in 0..(n - 1) : IsDigit(ByteAt(s, o + k))

\* the literal lit at offset o of field s
LitAt(s, o, lit) ==
    /\ o + Len(lit) <= Len(s)
    /\ \A k \in 1..Len(lit) : s[o + k] = lit[k]

\* (GET|HEAD|POST|PUT|OPTIONS|PATCH)
METHODS == {<<71, 69, 84>>, <<72, 69, 65, 68>>, <<80, 79, 83, 84>>, <<80, 85, 84>>,
            <<79, 80, 84, 73, 79, 78, 83>>, <<80, 65, 84, 67, 72>>}
\* (http|https)
PROTOCOLS == {<<104, 116, 116, 112>>, <<104, 116, 116, 112, 115>>}
\* (Mozilla|http-kit)
AGENTS == {<<77, 111, 122, 105, 108, 108, 97>>, <<104, 116, 116, 112, 45, 107, 105, 116>>}
\* \s: space, \t, \n, \v, \f, \r
SPACES == {SP, TAB, NL, VT, 12, 13}

\* "^[0-9]{4}-[0-9]{2}-[0-9]{2}"
DATE_PATTERN(s) ==
    /\ DigitsAt(s, 0, 4) /\ ByteAt(s, 4) = 45
    /\ DigitsAt(s, 5, 2) /\ ByteAt(s, 7) = 45
    /\ DigitsAt(s, 8, 2)

\* "^[0-9]{2}:[0-9]{2}:[0-9]{2}", at offset o
TimeAt(s, o) ==
    /\ DigitsAt(s, o, 2) /\ ByteAt(s, o + 2) = COLON
    /\ DigitsAt(s, o + 3, 2) /\ ByteAt(s, o + 5) = COLON
    /\ DigitsAt(s, o + 6, 2)

TIME_PATTERN(s) == TimeAt(s, 0)

\* "^[0-9]{4}-[0-9]{2}-[0-9]{2}T[0-9]{2}:[0-9]{2}:[0-9]{2}"
RFC3339_PATTERN(s) == DATE_PATTERN(s) /\ ByteAt(s, 10) = 84 /\ TimeAt(s, 11)

\* n groups "[0-9]{1,3}" separated by "\\." at offset o
RECURSIVE Octets(_, _, _)
Octets(s, o, n) ==
    \E k \in 1..3 :
        /\ DigitsAt(s, o, k)
        /\ n = 1 \/ (ByteAt(s, o + k) = DOT /\ Octets(s, o + k + 1, n - 1))

\* "^[0-9]{1,3}\\.[0-9]{1,3}\\.[0-9]{1,3}\\.[0-9]{1,3}"
IPV4_PATTERN(s) == Octets(s, 0, 4)

\* "^(Mozilla|http-kit)"
USERAGENT_PATTERN(s) == \E a \in AGENTS : LitAt(s, 0, a)

\* "^(GET|HEAD|POST|PUT|OPTIONS|PATCH)\\s+(http|https)://.+"
REQUEST_PATTERN(s) ==
    \E m \in METHODS, p \in PROTOCOLS, n \in 1..Len(s) :
        /\ LitAt(s, 0, m)
        /\ \A k \in 0..(n - 1) : ByteAt(s, Len(m) + k) \in SPACES
        /\ LitAt(s, Len(m) + n, p \o <<COLON, SLASH, SLASH>>)
        /\ Len(m) + n + Len(p) + 3 < Len(s)

\* "^(GET|HEAD|POST|PUT|OPTIONS|PATCH)$"
METHOD_PATTERN(s) == s \in METHODS

\* "^(http|https)$"
PROTOCOL_PATTERN(s) == s \in PROTOCOLS

\* "^.+\\..+$"
DOMAIN_PATTERN(s) == \E k \in 2..(Len(s) - 1) : s[k] = DOT

\* "^\\/.+$"
ENDPOINT_PATTERN(s) == Len(s) >= 2 /\ s[1] = SLASH

\* The roles in the order in which infer_field_type tries them.
FIELD_TYPES ==
    <<"FIELD_RFC3339", "FIELD_DATE", "FIELD_TIME", "FIELD_IPADDR", "FIELD_USERAGENT",
      "FIELD_REQUEST", "FIELD_METHOD", "FIELD_PROTOCOL", "FIELD_DOMAIN",
      "FIELD_ENDPOINT">>
NFIELD_TYPES == Len(FIELD_TYPES)
FIELD_UNKNOWN == "FIELD_UNKNOWN"
FieldTypes == {FIELD_TYPES[k] : k \in 1..NFIELD_TYPES}

\* regex_does_match(&lc->regexes[ftype], field), with FIELD_PATTERNS[ftype]
\* compiled into lc->regexes[ftype]
regex_does_match(ftype, field) ==
    CASE ftype = "FIELD_RFC3339" -> RFC3339_PATTERN(field)
      [] ftype = "FIELD_DATE" -> DATE_PATTERN(field)
      [] ftype = "FIELD_TIME" -> TIME_PATTERN(field)
      [] ftype = "FIELD_IPADDR" -> IPV4_PATTERN(field)
      [] ftype = "FIELD_USERAGENT" -> USERAGENT_PATTERN(field)
      [] ftype = "FIELD_REQUEST" -> REQUEST_PATTERN(field)
      [] ftype = "FIELD_METHOD" -> METHOD_PATTERN(field)
      [] ftype = "FIELD_PROTOCOL" -> PROTOCOL_PATTERN(field)
      [] ftype = "FIELD_DOMAIN" -> DOMAIN_PATTERN(field)
      [] ftype = "FIELD_ENDPOINT" -> ENDPOINT_PATTERN(field)

\* The loop of infer_field_type from FIELD_TYPES[i] on.
RECURSIVE InferFrom(_, _)
InferFrom(field, i) ==
    IF i > NFIELD_TYPES THEN FIELD_UNKNOWN
    ELSE IF regex_does_match(FIELD_TYPES[i], field) THEN FIELD_TYPES[i]
    ELSE InferFrom(field, i + 1)

\* infer_field_type(lc, fv): fv is a view of buf
infer_field_type(buf, fv) == InferFrom(Slice(buf, fv.src, fv.len), 1)

null_field_info ==
    [type |-> FIELD_UNKNOWN, index |-> -1, nmatches |-> 0,
     is_session |-> FALSE, is_custom |-> FALSE]

\* ERRX(...): the message is kept in err, and nothing runs after it
Fatal(config, msg) == [config EXCEPT !.err = msg]

\* amend_line_config without the return on fi->is_custom
amend_line_config_nocustom(config, ftype, idx) ==
    LET fi == config.total_field_info[ftype]
    IN  IF NFIELD_TYPES <= config.ntotal_field_info THEN config
        ELSE IF config.active_fields[idx] # FIELD_UNKNOWN
        THEN Fatal(config, "cannot re-use field")
        ELSE IF fi.type = FIELD_UNKNOWN
        THEN [config EXCEPT
                !.total_field_info[ftype] =
                    [fi EXCEPT !.type = ftype, !.index = idx, !.nmatches = @ + 1],
                !.ntotal_field_info = @ + 1,
                !.active_fields[idx] = ftype]
        ELSE [config EXCEPT !.total_field_info[ftype].nmatches = @ + 1]

\* amend_line_config(lc, ftype, idx)
amend_line_config(config, ftype, idx) ==
    LET fi == config.total_field_info[ftype]
    IN  IF NFIELD_TYPES <= config.ntotal_field_info THEN config
        ELSE IF fi.is_custom THEN config
        ELSE IF config.active_fields[idx] # FIELD_UNKNOWN
        THEN Fatal(config, "cannot re-use field")
        ELSE IF fi.type = FIELD_UNKNOWN
        THEN [config EXCEPT
                !.total_field_info[ftype] =
                    [fi EXCEPT !.type = ftype, !.index = idx, !.nmatches = @ + 1],
                !.ntotal_field_info = @ + 1,
                !.active_fields[idx] = ftype]
        ELSE \* a second match: WARNX("multiple matches for field ...")
             [config EXCEPT !.total_field_info[ftype].nmatches = @ + 1]

is_field_set(config, ftype) == config.total_field_info[ftype].type = ftype

is_session_field(config, ftype) == config.total_field_info[ftype].is_session

\* set_scan_field(lc, ftype), for each role of ftypes in turn
RECURSIVE set_scan_field(_, _)
set_scan_field(config, ftypes) ==
    IF ftypes = <<>> THEN config
    ELSE set_scan_field(
             [config EXCEPT
                !.scan_field_info = Append(@, config.total_field_info[Head(ftypes)]),
                !.nscan_field_info = @ + 1],
             Tail(ftypes))

\* init_scan_fields(lc): the time inputs, the session fields, the request
\* inputs, in this order
init_scan_fields(config) ==
    LET set(ftype) == is_field_set(config, ftype)
        time == IF set("FIELD_RFC3339") THEN <<"FIELD_RFC3339">>
                ELSE <<"FIELD_DATE", "FIELD_TIME">>
        ipaddr == IF is_session_field(config, "FIELD_IPADDR")
                  THEN <<"FIELD_IPADDR">> ELSE <<>>
        useragent == IF is_session_field(config, "FIELD_USERAGENT")
                     THEN <<"FIELD_USERAGENT">> ELSE <<>>
        request == IF set("FIELD_REQUEST") THEN <<"FIELD_REQUEST">>
                   ELSE <<"FIELD_METHOD", "FIELD_DOMAIN", "FIELD_ENDPOINT">>
    IN  IF ~(set("FIELD_RFC3339") \/ (set("FIELD_DATE") /\ set("FIELD_TIME")))
        THEN Fatal(config, "could not find RFC3339 timestamp, nor date and time fields")
        ELSE IF ipaddr # <<>> /\ ~set("FIELD_IPADDR")
        THEN Fatal(set_scan_field(config, time), "could not find IP address field")
        ELSE IF useragent # <<>> /\ ~set("FIELD_USERAGENT")
        THEN Fatal(set_scan_field(config, time \o ipaddr),
                   "could not find user agent field")
        ELSE IF ~(set("FIELD_REQUEST")
                  \/ (set("FIELD_METHOD") /\ set("FIELD_DOMAIN") /\ set("FIELD_ENDPOINT")))
        THEN Fatal(set_scan_field(config, time \o ipaddr \o useragent),
                   "could not find request, nor method, domain and endpoint fields")
        ELSE set_scan_field(config, time \o ipaddr \o useragent \o request)

\* The loop of parse_session_fields over the tokens of the -S option.
RECURSIVE parse_session_fields(_, _)
parse_session_fields(config, session_fields) ==
    IF session_fields = <<>> THEN config
    ELSE IF Head(session_fields) = "ipaddr"
    THEN parse_session_fields(
             [config EXCEPT !.total_field_info["FIELD_IPADDR"].is_session = TRUE],
             Tail(session_fields))
    ELSE IF Head(session_fields) = "useragent"
    THEN parse_session_fields(
             [config EXCEPT !.total_field_info["FIELD_USERAGENT"].is_session = TRUE],
             Tail(session_fields))
    ELSE Fatal(config, "invalid session field")

\* str_to_field_type(s)
str_to_field_type(s) ==
    CASE s = "rfc3339" -> "FIELD_RFC3339"
      [] s = "date" -> "FIELD_DATE"
      [] s = "time" -> "FIELD_TIME"
      [] s = "useragent" -> "FIELD_USERAGENT"
      [] s = "ipaddr" -> "FIELD_IPADDR"
      [] s = "request" -> "FIELD_REQUEST"
      [] s = "method" -> "FIELD_METHOD"
      [] s = "protocol" -> "FIELD_PROTOCOL"
      [] s = "domain" -> "FIELD_DOMAIN"
      [] s = "endpoint" -> "FIELD_ENDPOINT"
      [] OTHER -> FIELD_UNKNOWN

\* override_line_config(lc, index_fields): the loop over the tokens
\* "field=index" of the -i option.  A token is the pair of its field name
\* and of the number parse_long reads after the '='.
RECURSIVE override_line_config(_, _)
override_line_config(config, index_fields) ==
    IF index_fields = <<>> THEN config
    ELSE
    LET field == Head(index_fields).field
        index == Head(index_fields).index
        ftype == str_to_field_type(field)
    IN  IF index < 0 \/ config.nall_fields <= index
        THEN Fatal(config, "index for field out of range")
        ELSE IF ftype = FIELD_UNKNOWN
        THEN Fatal(config, "unknown field type")
        ELSE override_line_config(
                 [config EXCEPT
                    !.total_field_info[ftype] =
                        [@ EXCEPT !.type = ftype, !.index = index, !.is_custom = TRUE],
                    !.active_fields[index] = ftype,
                    !.ntotal_field_info = @ + 1],
                 Tail(index_fields))

(***************************************************************************)
(* Line configuration on its own: a first line, the -S option and the -i   *)
(* option drawn from bounded sets, and init_line_config run on them.       *)
(***************************************************************************)
\* The longest -i option, in tokens.
MaxOverrides == 2

\* "1970-01-01", "00:00:00", "GET", "x.y", "/a", "-"
DateField == <<49, 57, 55, 48, 45, 48, 49, 45, 48, 49>>
ClockField == <<48, 48, 58, 48, 48, 58, 48, 48>>
MethodField == <<71, 69, 84>>
DomainField == <<120, DOT, 121>>
EndpointField == <<SLASH, 97>>
DashField == <<45>>

\* The fields of a line, separated by spaces.
RECURSIVE Spaced(_)
Spaced(fields) ==
    IF Len(fields) = 1 THEN Head(fields) \o <<NL>>
    ELSE Head(fields) \o <<SP>> \o Spaced(Tail(fields))

\* First lines: the combined layout; the split layout (date, time, method,
\* domain, endpoint); two timestamps; two fields that match no pattern.
ConfigLines ==
    { Line(0, IpA, UrlA, UaM),
      Spaced(<<DateField, ClockField, MethodField, DomainField, EndpointField>>),
      Spaced(<<TsField(0), TsField(1), IpA, ReqField(UrlA)>>),
      Spaced(<<DashField, DashField, IpA, UaM>>) }

\* The names a token of the -i option may carry; the last one is no role.
OverrideNames == {"rfc3339", "useragent", "request", "bogus"}

\* The -i options of at most MaxOverrides tokens over a line of n fields;
\* the index n is out of range.
IndexFields(n) ==
    UNION {[1..k -> [field : OverrideNames, index : 0..n]] : k \in 0..MaxOverrides}

\* The -S options.
SessionOptions == {<<>>, <<"ipaddr", "useragent">>}

InitConfig ==
    /\ file \in ConfigLines
    /\ tp = NoPatterns
    /\ lc = Unset
    /\ nthreads = 1
    /\ chunk = [tid \in {0} |-> Chunk(Len(file), 1, tid)]
    /\ pc = [tid \in {0} |-> "init_line_config"]
    /\ src = [tid \in {0} |-> 0]
    /\ \E index_fields \in IndexFields(get_fields(file, NFIELDS_MAX, 0, TRUE).nfields),
          session_fields \in SessionOptions :
           loc = [tid \in {0} |-> [index_fields |-> index_fields,
                                   session_fields |-> session_fields]]
    /\ rs = init_request_set
    /\ sm = init_session_map
    /\ mainpc = "finish_work_ctx"
    /\ rt = Unset
    /\ pg = Unset
    /\ gp = Unset
    /\ hist = [tokenized |-> EmptyBag, returns |-> {}, amends |-> EmptyBag]
    /\ out = <<>>

\* init_line_config up to its inference loop: the empty configuration, the
\* session fields, the fields of the first line, the overrides.
InitLineConfig(w) ==
    /\ pc[w] = "init_line_config"
    /\ LET g == get_fields(file, NFIELDS_MAX, src[w], TRUE)
           empty == [nall_fields |-> g.nfields,
                     ntotal_field_info |-> 0,
                     nscan_field_info |-> 0,
                     total_field_info |-> [t \in FieldTypes |-> null_field_info],
                     scan_field_info |-> <<>>,
                     active_fields |-> [i \in 0..(g.nfields - 1) |-> FIELD_UNKNOWN],
                     err |-> ""]
           config == override_line_config(
                         parse_session_fields(empty, loc[w].session_fields),
                         loc[w].index_fields)
       IN  /\ lc' = config
           /\ loc' = [loc EXCEPT ![w] = g @@ [i |-> 0] @@ loc[w]]
           /\ pc' = [pc EXCEPT ![w] = IF config.err # "" THEN "fatal"
                                      ELSE "infer_field_type"]
    /\ UNCHANGED <<file, tp, nthreads, chunk, src, rs, sm, mainpc, rt, pg, gp, hist, out>>

\* One turn of the inference loop of init_line_config.
InferField(w) ==
    /\ pc[w] = "infer_field_type"
    /\ loc[w].i < lc.nall_fields
    /\ LET ftype == infer_field_type(file, loc[w].fvs[loc[w].i + 1])
           config == IF ftype = FIELD_UNKNOWN THEN lc
                     ELSE amend_line_config(lc, ftype, loc[w].i)
       IN  /\ lc' = config
           /\ pc' = [pc EXCEPT ![w] = IF config.err # "" THEN "fatal"
                                      ELSE "infer_field_type"]
    /\ loc' = [loc EXCEPT ![w].i = @ + 1]
    /\ UNCHANGED <<file, tp, nthreads, chunk, src, rs, sm, mainpc, rt, pg, gp, hist, out>>

\* The end of init_line_config: init_scan_fields(lc).
InitScanFields(w) ==
    /\ pc[w] = "infer_field_type"
    /\ loc[w].i = lc.nall_fields
    /\ lc' = init_scan_fields(lc)
    /\ pc' = [pc EXCEPT ![w] = IF lc'.err # "" THEN "fatal" ELSE "configured"]
    /\ UNCHANGED <<file, tp, nthreads, chunk, src, loc, rs, sm, mainpc, rt, pg, gp, hist, out>>

NextConfig ==
    \E w \in Workers : InitLineConfig(w) \/ InferField(w) \/ InitScanFields(w)

SpecConfig == InitConfig /\ [][NextConfig]_vars

(***************************************************************************)
(* apathy.c: the -T option, from main's getopt loop to the start of the    *)
(* workers in init_work_ctx                                                *)
(***************************************************************************)
NTHREADS_MAX == 4096
INT_MAX == 2147483647
INT_MIN == -INT_MAX - 1

\* What strtol may read from the argument of -T; -1 is also the value main
\* starts with when the option is absent.
ThreadCounts ==
    {-(NTHREADS_MAX + 1), -NTHREADS_MAX, -2, -1, 0, 1, 2, NTHREADS_MAX, NTHREADS_MAX + 1}

\* gp holds main's local nthreads; no worker exists yet.
InitThreads ==
    /\ file \in Files
    /\ tp = NoPatterns
    /\ lc = init_line_config(file)
    /\ nthreads = 0
    /\ chunk = <<>>
    /\ pc = <<>>
    /\ src = <<>>
    /\ loc = <<>>
    /\ rs = init_request_set
    /\ sm = init_session_map
    /\ mainpc = "getopt"
    /\ rt = Unset
    /\ pg = Unset
    /\ \E n \in ThreadCounts : gp = [nthreads |-> n]
    /\ hist = [tokenized |-> EmptyBag, returns |-> {}, amends |-> EmptyBag]
    /\ out = <<>>

\* case 'T' of main's getopt loop
GetoptThreads ==
    /\ mainpc = "getopt"
    /\ mainpc' = IF \/ gp.nthreads = 0
                    \/ gp.nthreads > INT_MAX
                    \/ gp.nthreads < INT_MIN
                 THEN "errx" ELSE "init_work_ctx"
    /\ UNCHANGED <<file, tp, lc, nthreads, chunk, pc, src, loc, rs, sm, rt, pg, gp, hist, out>>

\* pthread_create for tid = 0 .. n - 1, each worker on its chunk
StartWorkers(n) ==
    /\ nthreads' = n
    /\ chunk' = [tid \in 0..(n - 1) |-> Chunk(Len(file), n, tid)]
    /\ pc' = [tid \in 0..(n - 1) |-> "scan"]
    /\ src' = [tid \in 0..(n - 1) |-> chunk'[tid].start]
    /\ loc' = [tid \in 0..(n - 1) |-> NoLocals]
    /\ mainpc' = "finish_work_ctx"

\* init_work_ctx(&work_ctx, nthreads, ...).  When the assertion on nthreads
\* does not hold, the run is aborted where assertions are compiled in; with
\* NDEBUG the function goes on, and its loop starts no worker.
InitWorkCtx ==
    /\ mainpc = "init_work_ctx"
    /\ LET n == IF Len(file) < MT_THRESHOLD THEN 1
                ELSE IF gp.nthreads = -1 THEN 1
                ELSE gp.nthreads
       IN  IF n > NTHREADS_MAX
           THEN /\ mainpc' = "errx"
                /\ UNCHANGED <<nthreads, chunk, pc, src, loc>>
           ELSE IF ~(0 < n /\ n <= NTHREADS_MAX)
           THEN \/ /\ mainpc' = "abort"
                   /\ UNCHANGED <<nthreads, chunk, pc, src, loc>>
                \/ /\ nthreads' = n
                   /\ mainpc' = "finish_work_ctx"
                   /\ UNCHANGED <<chunk, pc, src, loc>>
           ELSE StartWorkers(n)
    /\ UNCHANGED <<file, tp, lc, rs, sm, rt, pg, gp, hist, out>>

NextThreads == GetoptThreads \/ InitWorkCtx

SpecThreads == InitThreads /\ [][NextThreads]_vars

(***************************************************************************)
(* path_graph.c on its own: the two loops of gen_path_graph over a session *)
(* map of one or two sessions, up to the sort of the vertices              *)
(***************************************************************************)
\* The request ids and the longest session of the short sessions, and the
\* number of distinct requests that follow request 0 in the longest fan.
MaxRids == 3
MaxSessionLen == 2
MaxFan == 9

\* The sessions as lists of request ids; request k is delivered at second k
\* of the session.
ShortSessions == UNION {[1..k -> 0..(MaxRids - 1)] : k \in 1..MaxSessionLen}
\* 0, 1, 0, 2, ..., 0, n: request 0 is followed by n different requests
Fan(n) == [k \in 1..(2 * n) |-> IF k % 2 = 1 THEN 0 ELSE k \div 2]
SessionSets ==
    {<<s>> : s \in ShortSessions} \cup (ShortSessions \X ShortSessions)
    \cup {<<Fan(n)>> : n \in 1..MaxFan}
RidsOf(sessions) ==
    UNION {{sessions[k][i] : i \in 1..Len(sessions[k])} : k \in 1..Len(sessions)}

\* The session map after the workers have delivered the sessions: session k
\* has the id FNV-1a(<<k>>), its requests are amended in order.
RECURSIVE Delivered(_, _, _, _)
Delivered(map, sessions, k, i) ==
    IF k > Len(sessions) THEN map
    ELSE IF i > Len(sessions[k]) THEN Delivered(map, sessions, k + 1, 1)
    ELSE LET sid == hash64_update(hash64_init, <<k>>)
         IN  Delivered(amend_session_map_entry(map, SessionBucket(sid), sid,
                                               <<0, i * MS_IN_SEC>>, sessions[k][i]),
                       sessions, k, i + 1)

\* main before init_path_graph: every request of the table is in a session
\* (the ids of the sessions are 0 .. nrequests - 1).
InitGraph ==
    /\ file = <<>>
    /\ tp = NoPatterns
    /\ lc = Unset
    /\ nthreads = 1
    /\ chunk = [tid \in {0} |-> Chunk(0, 1, tid)]
    /\ pc = [tid \in {0} |-> "exit"]
    /\ src = [tid \in {0} |-> NULL]
    /\ loc = [tid \in {0} |-> NoLocals]
    /\ rs = init_request_set
    /\ \E sessions \in SessionSets :
          /\ RidsOf(sessions) = 0..(Cardinality(RidsOf(sessions)) - 1)
          /\ sm = Delivered(init_session_map, sessions, 1, 1)
          /\ rt = [nrequests |-> Cardinality(RidsOf(sessions))]
    /\ mainpc = "init_path_graph"
    /\ pg = Unset
    /\ gp = Unset
    /\ hist = [tokenized |-> EmptyBag, returns |-> {}, amends |-> EmptyBag]
    /\ out = <<>>

NextGraph == InitPathGraph \/ QsortRequests \/ AmendPathGraphVertex

SpecGraph == InitGraph /\ [][NextGraph]_vars

(***************************************************************************)
(* Vocabulary of the properties                                            *)
(***************************************************************************)
AllExited == \A w \in Workers : pc[w] = "exit"
Done == mainpc = "done"
GraphBuilt == mainpc \in {"qsort_requests", "amend_vertex", "qsort_vertices",
                          "qsort_edges", "done"}

\* The offsets at which the lines of buf start.
LineStarts(buf) ==
    {0} \cup {o + 1 : o \in {o \in 0..(Len(buf) - 2) : ByteAt(buf, o) = NL}}

\* The lines whose field count is that of the first line.
WellFormed(buf) ==
    {o \in LineStarts(buf) :
        get_fields(buf, NFIELDS_MAX, o, TRUE).nfields = lc.ntotal_fields}

\* What a well-formed line contributes: its canonical request string, its
\* timestamp and the session entry (bucket and key) it is filed under.
LineRecord(buf, o) ==
    LET l == LineLocals(buf, get_fields(buf, NFIELDS_MAX, o, TRUE), lc, tp)
    IN  [line |-> o, data |-> l.trunc_buf, ts |-> l.ts,
         key |-> <<l.sm_bucket_idx, SessionKey(l.sid)>>]

\* A set of offsets as the ascending sequence of its elements.
RECURSIVE InOrder(_)
InOrder(S) == IF S = {} THEN <<>> ELSE <<MinOf(S)>> \o InOrder(S \ {MinOf(S)})

\* The sum of f over the set S.
RECURSIVE SumOver(_, _)
SumOver(f, S) ==
    IF S = {} THEN 0
    ELSE LET x == CHOOSE x \in S : TRUE IN f[x] + SumOver(f, S \ {x})

\* The adjacent pairs of a list of request strings or ids, as a bag.
PairsBag(list) ==
    LET pair(i) == <<list[i], list[i + 1]>>
        P == {pair(i) : i \in 1..(Len(list) - 1)}
    IN  [p \in P |-> Cardinality({i \in 1..(Len(list) - 1) : pair(i) = p})]

\* The request lists of a run with one thread: per session entry, the
\* records of its lines in file order.
T1Sessions(buf) ==
    LET recs == [o \in WellFormed(buf) |-> LineRecord(buf, o)]
        keys == {recs[o].key : o \in WellFormed(buf)}
        of(key) == InOrder({o \in WellFormed(buf) : recs[o].key = key})
    IN  {[k \in 1..Len(of(key)) |-> recs[of(key)[k]]] : key \in keys}

\* The edges, with their hit counts, of the graphs a run with one thread
\* can build from these request lists.
RECURSIVE T1EdgeBags(_)
T1EdgeBags(sessions) ==
    IF sessions = {} THEN {EmptyBag}
    ELSE LET s == CHOOSE s \in sessions : TRUE
         IN  {PairsBag([k \in 1..Len(a) |-> a[k].data]) (+) b :
                 a \in qsort(s, Len(s), "cmp_session_request"),
                 b \in T1EdgeBags(sessions \ {s})}

\* The vertices of the path graph that are in use, and the graph with its
\* vertices named by canonical request string.
Vertices == {v \in 1..pg.capvertices : ~is_null_vertex(pg.vertices[v])}
RequestString(rid) == rt.requests[rid + 1]
GraphVertices == {RequestString(pg.vertices[v].rid) : v \in Vertices}
GraphEdges ==
    LET E == UNION {{<<v, k>> : k \in 1..pg.vertices[v].nedges} : v \in Vertices}
        pair(e) == <<RequestString(pg.vertices[e[1]].rid),
                     RequestString(pg.vertices[e[1]].edges[e[2]].rid)>>
        hits == [e \in E |-> pg.vertices[e[1]].edges[e[2]].nhits]
    IN  [p \in {pair(e) : e \in E} |-> SumOver(hits, {e \in E : pair(e) = p})]

\* The session entries, in the order gen_path_graph visits them.
SessionList ==
    LET at == BucketEntries(sm.handles, DOMAIN sm.handles)
    IN  [k \in 1..Len(at) |-> sm.handles[at[k][1]][at[k][2]]]

\* The positions <<session, index>> of the session request lists.
Positions ==
    UNION {{<<k, i>> : i \in 1..SessionList[k].nrequests} : k \in 1..Len(SessionList)}
RidAt(p) == SessionList[p[1]].requests[p[2]].rid

(***************************************************************************)
(* C1 .. C10                                                               *)
(***************************************************************************)
\* C1: once the path graph is built, it is a graph that the run with one
\* thread builds from the same file: the same canonical request strings as
\* vertices, the same edges, the same hit count on every edge.
C1_SameGraphAsOneThread ==
    Done =>
        /\ GraphVertices = {LineRecord(file, o).data : o \in WellFormed(file)}
        /\ GraphEdges \in T1EdgeBags(T1Sessions(file))

\* C2: calls of add_request_set_entry with equal canonical strings have
\* returned the same request id, calls with distinct strings distinct ids,
\* and every string returned for has exactly one entry in the Request Set.
C2_Interning ==
    LET es == RequestEntries(rs)
    IN  /\ \A x, y \in hist.returns : (x.data = y.data) <=> (x.rid = y.rid)
        /\ \A i, j \in 1..Len(es) : es[i].data = es[j].data => i = j
        /\ \A x \in hist.returns :
              \E i \in 1..Len(es) : es[i].data = x.data /\ es[i].rid = x.rid

\* Two workers have interned the same string, and another string is in.
C2_Witness ==
    /\ AllExited
    /\ \E x, y, z \in hist.returns :
          x.tid # y.tid /\ x.data = y.data /\ z.data # x.data

\* C3: no line is tokenized by two workers, and once every worker has
\* exited every line of the file has been tokenized by exactly one.
C3_ExactlyOneWorker ==
    /\ \A o \in BagToSet(hist.tokenized) : CopiesIn(o, hist.tokenized) = 1
    /\ AllExited => BagToSet(hist.tokenized) = LineStarts(file)

\* The (timestamp, request id) pairs passed to amend_session_map_entry for
\* session id sid, as a bag.
AmendedPairs(sid) ==
    LET A == {x \in BagToSet(hist.amends) : x.sid = sid}
        pair(x) == [rid |-> x.rid, ts |-> x.ts]
        copies == [x \in A |-> CopiesIn(x, hist.amends)]
    IN  [p \in {pair(x) : x \in A} |-> SumOver(copies, {x \in A : pair(x) = p})]

\* The requests a session entry holds, as a bag.
HeldPairs(entry) ==
    [p \in {entry.requests[i] : i \in 1..Len(entry.requests)} |->
        Cardinality({i \in 1..Len(entry.requests) : entry.requests[i] = p})]

\* C4: at every moment each session id passed to amend_session_map_entry
\* has one entry, and the entry holds exactly the pairs passed in for it,
\* as many as there were calls, within a buffer that has grown to fit.
C4_NoRequestLost ==
    \A sid \in {x.sid : x \in BagToSet(hist.amends)} :
        LET E == {k \in 1..Len(SessionList) : SessionList[k].sid = sid}
        IN  /\ Cardinality(E) = 1
            /\ \A k \in E :
                  /\ HeldPairs(SessionList[k]) = AmendedPairs(sid)
                  /\ SessionList[k].nrequests = Len(SessionList[k].requests)
                  /\ SessionList[k].nrequests <= SessionList[k].caprequests

\* C5: once every worker has exited, nrequests is the number of request
\* ids minted and the ids are 0..nrequests-1; gen_request_table then
\* writes inside its arrays.
C5_CountIsIdsMinted ==
    /\ AllExited =>
          /\ rs.nrequests = Len(RequestEntries(rs))
          /\ {RequestEntries(rs)[k].rid : k \in 1..Len(RequestEntries(rs))}
                = 0..(rs.nrequests - 1)
    /\ mainpc # "undefined"

\* C6: two recorded lines are filed under the same session entry exactly
\* when their session fields are equal field by field.
C6_SessionPartition ==
    \A x, y \in BagToSet(hist.amends) :
        (x.bucket_idx = y.bucket_idx /\ SessionKey(x.sid) = SessionKey(y.sid))
            <=> (x.sfields = y.sfields)

\* C7: in the built graph the in-hits of the vertices add up to
\* total_nhits, which is the number of well-formed lines of the file.
C7_HitsAreLines ==
    Done =>
        /\ SumOver([v \in Vertices |-> pg.vertices[v].total_nhits_in], Vertices)
              = pg.total_nhits
        /\ pg.total_nhits = Cardinality(WellFormed(file))

\* The sum of the hit counts of a vertex's edges.
EdgeHits(vertex) ==
    SumOver([k \in 1..vertex.nedges |-> vertex.edges[k].nhits], 1..vertex.nedges)

\* C8: from init_path_graph on, after every amend_path_graph_vertex call
\* and in the final graph, every vertex has total_nhits_out equal to the
\* sum of its edges' hits, and total_nhits_in at least total_nhits_out.
C8_OutIsEdgeHits ==
    GraphBuilt =>
        \A v \in 1..pg.capvertices :
            /\ pg.vertices[v].total_nhits_out = EdgeHits(pg.vertices[v])
            /\ pg.vertices[v].total_nhits_in >= pg.vertices[v].total_nhits_out

\* In the middle of a session: amend_path_graph_vertex has hit an existing
\* edge of a vertex that has two edges.
C8_Witness ==
    /\ mainpc = "amend_vertex"
    /\ \E v \in Vertices :
          /\ pg.vertices[v].nedges >= 2
          /\ pg.vertices[v].total_nhits_out > pg.vertices[v].nedges

\* The depth gen_path_graph has when it reaches position p of a sorted
\* request list: 1 plus the number of earlier positions whose request
\* differs from the next one.
DepthAt(p) ==
    1 + Cardinality({i \in 1..(p[2] - 1) : RidAt(<<p[1], i>>) # RidAt(<<p[1], i + 1>>)})

\* C9 as stated: in the final graph min_depth is at least 1 and is the
\* smallest 1-based position of the vertex's request in any session's
\* sorted request list.
C9_MinDepthIsPosition ==
    Done =>
        \A v \in Vertices :
            /\ pg.vertices[v].min_depth >= 1
            /\ pg.vertices[v].min_depth
                  = MinOf({p[2] : p \in {p \in Positions : RidAt(p) = pg.vertices[v].rid}})

\* C9, amended: in the final graph min_depth is at least 1 and is the
\* smallest depth at which the vertex's request appears in any session's
\* sorted request list, where a position's depth is 1 plus the number of
\* earlier positions holding a request different from the one after it.
C9_MinDepthIsDepth ==
    Done =>
        \A v \in Vertices :
            /\ pg.vertices[v].min_depth >= 1
            /\ pg.vertices[v].min_depth
                  = MinOf({DepthAt(p) : p \in {p \in Positions : RidAt(p) = pg.vertices[v].rid}})

\* A request first seen at position 3, behind a repeated request, has
\* min_depth 2.
C9_Witness ==
    /\ Done
    /\ \E v \in Vertices :
          /\ pg.vertices[v].min_depth = 2
          /\ MinOf({p[2] : p \in {p \in Positions : RidAt(p) = pg.vertices[v].rid}}) = 3

\* The number of adjacent positions that hold r then d.
Adjacent(r, d) ==
    Cardinality({p \in Positions :
                    /\ p[2] < SessionList[p[1]].nrequests
                    /\ RidAt(p) = r
                    /\ RidAt(<<p[1], p[2] + 1>>) = d})

\* The edges r -> d of the graph, as <<vertex, edge index>>.
EdgesFromTo(r, d) ==
    UNION {{<<v, k>> : k \in {k \in 1..pg.vertices[v].nedges :
                                 pg.vertices[v].edges[k].rid = d}} :
              v \in {v \in Vertices : pg.vertices[v].rid = r}}

\* C10: in the final graph, for all request ids r and d, there is an edge
\* r -> d exactly when some adjacent positions of a sorted request list
\* hold r then d, there is one such edge only, its hit count is the number
\* of those positions, and total_nedges is the number of such pairs.
C10_EdgesAreAdjacentPairs ==
    Done =>
        LET Rids == 0..(pg.capvertices - 1)
        IN  /\ \A r, d \in Rids :
                  /\ Adjacent(r, d) = 0 => EdgesFromTo(r, d) = {}
                  /\ Adjacent(r, d) > 0 =>
                        /\ Cardinality(EdgesFromTo(r, d)) = 1
                        /\ \A e \in EdgesFromTo(r, d) :
                              pg.vertices[e[1]].edges[e[2]].nhits = Adjacent(r, d)
            /\ pg.total_nedges =
                  Cardinality({rd \in Rids \X Rids : Adjacent(rd[1], rd[2]) > 0})

\* A final graph with a self-loop edge and an edge hit more than once.
C10_Witness ==
    /\ Done
    /\ \E v \in Vertices : EdgesFromTo(pg.vertices[v].rid, pg.vertices[v].rid) # {}
    /\ \E v \in Vertices : \E k \in 1..pg.vertices[v].nedges :
          /\ pg.vertices[v].edges[k].rid # pg.vertices[v].rid
          /\ pg.vertices[v].edges[k].nhits >= 2

\* The ts of position p of the session request lists.
TsAt(p) == SessionList[p[1]].requests[p[2]].ts

\* The transitions gen_path_graph has counted so far: the positions p,
\* with a successor, for which amend_path_graph_vertex has been called.
Counted ==
    {p \in Positions :
        /\ p[2] < SessionList[p[1]].nrequests
        /\ \/ p[1] < gp.n
           \/ p[1] = gp.n /\ mainpc = "amend_vertex" /\ p[2] <= gp.r}

\* The transitions counted on the edge r -> d.
CountedOn(r, d) ==
    {p \in Counted : RidAt(p) = r /\ RidAt(<<p[1], p[2] + 1>>) = d}

\* The arithmetic mean of successor timestamp - predecessor timestamp over
\* a non-empty set of transitions, in lowest terms.
MeanDuration(P) ==
    Ratio(SumOver([p \in P |-> TsDiff(TsAt(<<p[1], p[2] + 1>>), TsAt(p))], P),
          Cardinality(P))

RsLocksOf(w) == {b \in DOMAIN rs.locks : rs.locks[b] = w}
HoldsRidLock(w) == rs.rid_lock = w
SmLocksOf(w) == {b \in DOMAIN sm.locks : sm.locks[b] = w}

\* C12: a worker holds at most one Request Set bucket lock and at most one
\* Session Map bucket lock; it holds the counter lock only while it holds a
\* bucket lock (taken after it, released before it); and it holds no
\* Request Set lock while it acquires or holds a Session Map lock, and no
\* Session Map lock while it acquires or holds a Request Set lock.
C12_LockOrder ==
    \A w \in Workers :
        /\ Cardinality(RsLocksOf(w)) <= 1
        /\ Cardinality(SmLocksOf(w)) <= 1
        /\ HoldsRidLock(w) => RsLocksOf(w) # {}
        /\ pc[w] = "rid_lock" => RsLocksOf(w) # {}
        /\ (SmLocksOf(w) # {} \/ pc[w] = "sm_lock")
              => (RsLocksOf(w) = {} /\ ~HoldsRidLock(w))
        /\ (RsLocksOf(w) # {} \/ HoldsRidLock(w) \/ pc[w] \in {"rs_lock", "rid_lock"})
              => SmLocksOf(w) = {}

\* One worker holds a bucket lock and the counter lock while another holds
\* a Session Map lock.
C12_Witness ==
    \E w1, w2 \in Workers :
        /\ w1 # w2
        /\ RsLocksOf(w1) # {} /\ HoldsRidLock(w1)
        /\ SmLocksOf(w2) # {}

\* C13: under fair scheduling every worker exits and the join barrier is
\* passed, and a worker that is not inside add_request_set_entry or
\* amend_session_map_entry (it is at the top of its loop or has exited)
\* holds no lock.
C13_WorkersFinish ==
    /\ <>(AllExited /\ mainpc # "finish_work_ctx")
    /\ [](\A w \in Workers :
            pc[w] \in {"scan", "exit"}
                => (RsLocksOf(w) = {} /\ ~HoldsRidLock(w) /\ SmLocksOf(w) = {}))

\* A worker waits for a Request Set bucket lock that another worker holds.
C13_Witness ==
    \E w1, w2 \in Workers :
        /\ w1 # w2
        /\ pc[w1] = "rs_lock"
        /\ loc[w1].bucket_idx \in DOMAIN rs.locks
        /\ rs.locks[loc[w1].bucket_idx] = w2

\* C14: gen_request_table, init_path_graph and gen_path_graph run only after
\* every worker has returned from run_thread: whenever main is past
\* finish_work_ctx, no worker is in its loop or inside add_request_set_entry
\* or amend_session_map_entry, and no lock is held.
C14_PostProcessingAfterJoin ==
    mainpc # "finish_work_ctx"
        => /\ AllExited
           /\ DOMAIN rs.locks = {}
           /\ rs.rid_lock = NULL
           /\ DOMAIN sm.locks = {}

\* Main is building the graph of a run of several workers.
C14_Witness ==
    /\ nthreads >= 2
    /\ mainpc = "amend_vertex"
    /\ gp.r >= 1
    /\ AllExited

\* The worker w is about to tokenize a line whose field count is not that of
\* the first line.
AtMalformed(w) ==
    /\ mainpc = "finish_work_ctx"
    /\ pc[w] = "scan"
    /\ src[w] # NULL
    /\ src[w] < chunk[w].end
    /\ get_fields(file, NFIELDS_MAX, src[w], src[w] = 0).nfields # lc.ntotal_fields

\* C15: a worker that tokenizes a line whose field count differs from the
\* first line's total skips it: the step creates no Request Set entry, does
\* not advance the RequestId counter, creates or extends no Session Map
\* entry, and leaves the worker at the top of its loop, past that line.
C15_MalformedSkipped ==
    [][\A w \in Workers :
          (AtMalformed(w) /\ src'[w] # src[w])
              => /\ rs' = rs
                 /\ sm' = sm
                 /\ pc'[w] = "scan"
                 /\ loc'[w] = loc[w]
                 /\ src'[w] = get_fields(file, NFIELDS_MAX, src[w], src[w] = 0).endp]_vars

\* A worker has tokenized the malformed line of FileShort and gone on to
\* record the line after it.
C15_Witness ==
    /\ file = FileShort
    /\ \E o \in BagToSet(hist.tokenized) :
           /\ o \in LineStarts(file) \ WellFormed(file)
           /\ \E w \in Workers : pc[w] = "sm_amend" /\ loc[w].line > o

\* C16: a step never changes or removes an entry of the Request Set (its
\* canonical string, its hash and its RequestId stay as created, at the same
\* place of the same bucket), and never decreases the RequestId counter.
C16_EntriesImmutable ==
    [][/\ rs'.rid_ctr >= rs.rid_ctr
       /\ \A b \in DOMAIN rs.handles :
             /\ b \in DOMAIN rs'.handles
             /\ Len(rs'.handles[b]) >= Len(rs.handles[b])
             /\ \A k \in 1..Len(rs.handles[b]) :
                   rs'.handles[b][k] = rs.handles[b][k]]_vars

\* A worker is inside add_request_set_entry, past the add of a new entry,
\* with an entry of another request already in the set, and a second worker
\* has looked up an existing entry.
C16_Witness ==
    \E w1, w2 \in Workers :
        /\ w1 # w2
        /\ pc[w1] = "nreq_store"
        /\ rs.rid_ctr >= REQUEST_ID_START + 2
        /\ \E r \in hist.returns : r.tid = w2

\* The offset of the first well-formed line whose canonical request string
\* is that of the vertex at index v.
FirstSeen(v) ==
    MinOf({o \in WellFormed(file) :
              LineRecord(file, o).data = RequestString(pg.vertices[v].rid)})

\* The vertices at u and v are equal on both keys of the vertex order.
SameKeys(u, v) ==
    /\ pg.vertices[u].min_depth = pg.vertices[v].min_depth
    /\ pg.vertices[u].total_nhits_in + pg.vertices[u].total_nhits_out
           = pg.vertices[v].total_nhits_in + pg.vertices[v].total_nhits_out

\* C17: the final order of the vertices, named by canonical request string,
\* is the same in every interleaving of the workers.  The comparison
\* function does not tell vertices with equal keys apart, so the order in
\* which a sort routine leaves them follows their order in the array it is
\* given, which is the order of their RequestIds: in every run, vertices
\* with equal keys have RequestIds in the order of their first lines in the
\* file, which is the order of the run in which worker 0 returns before
\* worker 1 starts, and so on.
C17_Reproducible ==
    Done =>
        \A u, v \in Vertices :
            (SameKeys(u, v) /\ FirstSeen(u) < FirstSeen(v))
                => pg.vertices[u].rid < pg.vertices[v].rid

\* The run the order is compared with: two workers, vertices with equal keys, and
\* RequestIds minted in the order of the file.
InFileOrderRun ==
    /\ Done
    /\ nthreads = 2
    /\ \E u, v \in Vertices : u # v /\ SameKeys(u, v)
    /\ \A u, v \in Vertices :
          FirstSeen(u) < FirstSeen(v) => pg.vertices[u].rid < pg.vertices[v].rid

\* hits_in + hits_out of the vertex at index v.
Score(v) == pg.vertices[v].total_nhits_in + pg.vertices[v].total_nhits_out

\* The vertex at u is before the vertex at v by the first two keys.
KeysBefore(u, v) ==
    \/ pg.vertices[u].min_depth < pg.vertices[v].min_depth
    \/ /\ pg.vertices[u].min_depth = pg.vertices[v].min_depth
       /\ Score(u) > Score(v)

\* C18: after gen_path_graph the vertex array is in the order of min_depth
\* ascending, then hits_in + hits_out descending, and vertices equal on both
\* keys are in the order of their RequestIds.
C18_VertexOrder ==
    Done =>
        \A u, v \in Vertices :
            u < v => \/ KeysBefore(u, v)
                     \/ /\ SameKeys(u, v)
                        /\ pg.vertices[u].rid < pg.vertices[v].rid

\* C19: truncate_raw_request applied to what truncate_raw_request wrote
\* writes the same bytes again, for every pattern list and raw request.
C19_TruncateIdempotent ==
    \A w \in Workers :
        pc[w] = "truncated_again" => loc[w].trunc_buf = loc[w].raw_buf

\* C20: truncate_raw_request writes the raw request with every pattern of
\* the list applied in list order: all non-overlapping matches of pattern 0
\* replaced by its alias (ReplaceAll), then pattern 1 applied to the result,
\* and so on through the last pattern (ApplyAll).
C20_AppliesEveryPattern ==
    LET RECURSIVE ReplaceAll(_, _, _)
        ReplaceAll(s, pattern, alias) ==
            LET match == get_regex_matches(pattern, s)
            IN  IF match = REG_NOMATCH THEN s
                ELSE SubSeq(s, 1, match.rm_so) \o alias
                         \o ReplaceAll(SubSeq(s, match.rm_eo + 1, Len(s)), pattern, alias)
        RECURSIVE ApplyAll(_, _)
        ApplyAll(s, patterns) ==
            IF patterns = <<>> THEN s
            ELSE ApplyAll(ReplaceAll(s, Head(patterns).pattern, Head(patterns).alias),
                          Tail(patterns))
    IN  \A w \in Workers :
            pc[w] = "truncated" => loc[w].trunc_buf = ApplyAll(loc[w].raw_buf, tp)

(***************************************************************************)
(* C21 .. C30                                                              *)
(***************************************************************************)
\* C21: for two valid calendar timestamps a and b, if a is chronologically
\* earlier than b (Earlier: year, month, day, hour, minute, second and
\* millisecond compared in that order) then a parses to the smaller
\* millisecond value, across month and year boundaries too.
C21_ParserMonotonic ==
    LET RECURSIVE Earlier(_, _)
        Earlier(a, b) ==
            /\ a # <<>>
            /\ \/ Head(a) < Head(b)
               \/ Head(a) = Head(b) /\ Earlier(Tail(a), Tail(b))
    IN  \A w \in Workers :
            (pc[w] = "parsed" /\ Earlier(loc[w].a, loc[w].b))
                => TsGreater(loc[w].ts_b, loc[w].ts_a)

\* C22: two RFC3339 timestamps that differ only in the seconds parse to
\* values whose difference is the difference of the seconds times 1000; and
\* the values of date_to_ms on the date and time_without_ms_to_ms on the
\* time, summed, are the value of the RFC3339 timestamp with that date and
\* time and .000 milliseconds.
C22_SecondsAndSum ==
    \A w \in Workers :
        pc[w] = "parsed" =>
            LET a == loc[w].a
                b == loc[w].b
                sum == loc[w].date_a[2] + loc[w].time_a[2]
            IN  /\ [a EXCEPT ![6] = 0] = [b EXCEPT ![6] = 0]
                    => TsDiff(loc[w].ts_b, loc[w].ts_a) = (b[6] - a[6]) * MS_IN_SEC
                /\ a[7] = 0
                    => loc[w].ts_a = <<loc[w].date_a[1] + loc[w].time_a[1] + (sum \div MS_IN_DAY),
                                       sum % MS_IN_DAY>>

\* Two timestamps one second apart have been parsed, and the date and the
\* time of the first, which has .000 milliseconds.
C22_Witness ==
    \E w \in Workers :
        /\ pc[w] = "parsed"
        /\ loc[w].a = <<1970, 12, 31, 0, 0, 0, 0>>
        /\ loc[w].b = <<1970, 12, 31, 0, 0, 1, 0>>
        /\ TsDiff(loc[w].ts_b, loc[w].ts_a) = MS_IN_SEC
        /\ loc[w].date_a # loc[w].ts_b

\* C23: every edge written has the style dotted when its source and its
\* destination are the same request, else solid when the min_depth of the
\* destination request's vertex is at least that of the source's vertex,
\* else dashed; the destination's vertex (VertexOf) is the vertex of the
\* destination request, wherever the sort has put it.
C23_EdgeStyle ==
    LET VertexOf(rid) == pg.vertices[CHOOSE v \in Vertices : pg.vertices[v].rid = rid]
    IN  mainpc = "exit" =>
            \A k \in DOMAIN out :
                out[k].line = "edge" =>
                    out[k].style =
                        IF out[k].rid = out[k].edge_rid THEN "dotted"
                        ELSE IF VertexOf(out[k].edge_rid).min_depth
                                    >= VertexOf(out[k].rid).min_depth THEN "solid"
                        ELSE "dashed"

\* C24: the lines written hold one subgraph block per distinct min_depth of
\* the vertices, every block is opened once and closed once (blocks do not
\* nest and none is left open), and every vertex is declared exactly once,
\* in the block of its min_depth: two declarations are in the same block
\* exactly when their vertices have the same min_depth.  Written(kind, k) is
\* the number of lines of that kind among the first k lines.
C24_SubgraphPerDepth ==
    mainpc = "exit" =>
        LET Written(kind, k) == Cardinality({j \in 1..k : out[j].line = kind})
            n == Len(out)
            nodes == {k \in 1..n : out[k].line = "node"}
            depth(k) == (CHOOSE v \in Vertices : pg.vertices[v].rid = out[k].rid)
            min_depth(k) == pg.vertices[depth(k)].min_depth
        IN  /\ Written("subgraph", n)
                   = Cardinality({pg.vertices[v].min_depth : v \in Vertices})
            /\ Written("close", n) = Written("subgraph", n)
            /\ \A k \in 1..n :
                  Written("subgraph", k) - Written("close", k) \in {0, 1}
            /\ \A k \in nodes : Written("subgraph", k) - Written("close", k) = 1
            /\ \A v \in Vertices :
                  Cardinality({k \in nodes : out[k].rid = pg.vertices[v].rid}) = 1
            /\ \A j, k \in nodes :
                  (Written("subgraph", j) = Written("subgraph", k))
                      <=> (min_depth(j) = min_depth(k))

\* A graph of three vertices at two depths has been written: a block of two
\* declarations and a block of one.
C24_Witness ==
    /\ mainpc = "exit"
    /\ Cardinality({k \in DOMAIN out : out[k].line = "subgraph"}) = 2
    /\ Cardinality({k \in DOMAIN out : out[k].line = "node"}) = 3

\* C25: get_fields returns the fields of the three-state machine the
\* statement describes (Tokens): in SEEK space, tab and vertical tab are
\* skipped, a double quote opens a quoted field whose view starts after it,
\* any other byte opens a standalone field; a standalone field ends at space,
\* tab or vertical tab; a quoted field ends at the next double quote that is
\* not preceded by a backslash inside the field, and its view holds
\* everything before that quote; newline (or the end of the buffer) ends the
\* line in any state with the fields found so far.
C25_Tokenization ==
    LET RECURSIVE Tokens(_, _, _)
        Tokens(o, state, fvs) ==
            LET c == ByteAt(file, o)
                n == Len(fvs)
                grown == [fvs EXCEPT ![n].len = @ + 1]
            IN  IF c \in {NL, NUL} THEN fvs
                ELSE IF state = "SEEK"
                THEN IF c \in {SP, TAB, VT} THEN Tokens(o + 1, "SEEK", fvs)
                     ELSE IF c = QUOTE
                     THEN Tokens(o + 1, "DOUBLE_QUOTED",
                                 Append(fvs, [len |-> 0, src |-> o + 1]))
                     ELSE Tokens(o + 1, "STANDALONE", Append(fvs, [len |-> 1, src |-> o]))
                ELSE IF state = "STANDALONE"
                THEN IF c \in {SP, TAB, VT} THEN Tokens(o + 1, "SEEK", fvs)
                     ELSE Tokens(o + 1, "STANDALONE", grown)
                ELSE IF c = QUOTE /\ ~(fvs[n].len > 0 /\ ByteAt(file, o - 1) = 92)
                     THEN Tokens(o + 1, "SEEK", fvs)
                     ELSE Tokens(o + 1, "DOUBLE_QUOTED", grown)
    IN  \A w \in Workers :
            pc[w] = "returned" =>
                /\ loc[w].nfields = Len(Tokens(0, "SEEK", <<>>))
                /\ loc[w].fvs = Tokens(0, "SEEK", <<>>)

\* The request field of the line at offset o, as get_fields views it
\* (without its quotes).
RequestField(o) ==
    LET fv == FieldOf(get_fields(file, NFIELDS_MAX, o, TRUE).fvs, lc.indices, "FIELD_REQUEST")
    IN  Slice(file, fv.src, fv.len)

C27_InferenceAndOverrides ==
    LET w == 0
        index_fields == loc[w].index_fields
        Field(i) == Slice(file, loc[w].fvs[i + 1].src, loc[w].fvs[i + 1].len)
        Matching(i) == {k \in 1..NFIELD_TYPES : regex_does_match(FIELD_TYPES[k], Field(i))}
        FirstRole(i) ==
            IF Matching(i) = {} THEN FIELD_UNKNOWN
            ELSE FIELD_TYPES[CHOOSE k \in Matching(i) : \A j \in Matching(i) : k <= j]
        Role(k) == str_to_field_type(index_fields[k].field)
        \* every token names a role and an index of the line, no role and no
        \* index is named twice
        Proper ==
            /\ \A k \in DOMAIN index_fields :
                   Role(k) # FIELD_UNKNOWN /\ index_fields[k].index < lc.nall_fields
            /\ \A j, k \in DOMAIN index_fields :
                   j # k => Role(j) # Role(k)
                            /\ index_fields[j].index # index_fields[k].index
    IN  pc[w] \in {"infer_field_type", "configured", "fatal"} =>
          /\ index_fields = <<>> =>
               \A i \in 0..(loc[w].i - 1) :
                   (\A j \in 0..(i - 1) : FirstRole(j) # FirstRole(i))
                       => lc.active_fields[i] = FirstRole(i)
          /\ Proper =>
               /\ lc.err # "cannot re-use field"
               /\ \A k \in DOMAIN index_fields :
                      /\ lc.total_field_info[Role(k)].index = index_fields[k].index
                      /\ lc.active_fields[index_fields[k].index] = Role(k)

\* C27 (amended): each field of the first line is tested against the roles
\* in the order of FIELD_TYPES and the first field of a role is bound to it; a
\* role the user gave an index for with -i stays bound to that index, and
\* inference never rebinds it; the configuration ends in the error "cannot
\* re-use field" exactly when the field at an index of the -i option is
\* inferred as a role that the option does not name.
C27_OverrideKeptOrFatal ==
    LET w == 0
        index_fields == loc[w].index_fields
        Field(i) == Slice(file, loc[w].fvs[i + 1].src, loc[w].fvs[i + 1].len)
        Matching(i) == {k \in 1..NFIELD_TYPES : regex_does_match(FIELD_TYPES[k], Field(i))}
        FirstRole(i) ==
            IF Matching(i) = {} THEN FIELD_UNKNOWN
            ELSE FIELD_TYPES[CHOOSE k \in Matching(i) : \A j \in Matching(i) : k <= j]
        Role(k) == str_to_field_type(index_fields[k].field)
        Proper ==
            /\ \A k \in DOMAIN index_fields :
                   Role(k) # FIELD_UNKNOWN /\ index_fields[k].index < lc.nall_fields
            /\ \A j, k \in DOMAIN index_fields :
                   j # k => Role(j) # Role(k)
                            /\ index_fields[j].index # index_fields[k].index
        Named(role) == \E k \in DOMAIN index_fields : Role(k) = role
        \* the field at index i is under an override and is inferred as a
        \* role that has none
        Clash(i) ==
            /\ \E k \in DOMAIN index_fields : index_fields[k].index = i
            /\ FirstRole(i) # FIELD_UNKNOWN
            /\ ~Named(FirstRole(i))
    IN  pc[w] \in {"infer_field_type", "configured", "fatal"} =>
          /\ index_fields = <<>> =>
               \A i \in 0..(loc[w].i - 1) :
                   (\A j \in 0..(i - 1) : FirstRole(j) # FirstRole(i))
                       => lc.active_fields[i] = FirstRole(i)
          /\ Proper =>
               /\ \A k \in DOMAIN index_fields :
                      /\ lc.total_field_info[Role(k)].index = index_fields[k].index
                      /\ lc.active_fields[index_fields[k].index] = Role(k)
               /\ lc.err = "cannot re-use field" <=>
                      (loc[w].i > 0 /\ Clash(loc[w].i - 1) /\ pc[w] = "fatal")
               /\ \A i \in 0..(loc[w].i - 1) :
                      Clash(i) => pc[w] = "fatal" /\ i = loc[w].i - 1

\* C27 witness: a configuration is complete under a -i option that binds a
\* role to a field the patterns would not have given it.
C27_Witness ==
    LET w == 0
        index_fields == loc[w].index_fields
        Field(i) == Slice(file, loc[w].fvs[i + 1].src, loc[w].fvs[i + 1].len)
    IN  /\ pc[w] = "configured"
        /\ \E k \in DOMAIN index_fields :
               /\ ~regex_does_match(str_to_field_type(index_fields[k].field),
                                    Field(index_fields[k].index))
               /\ lc.total_field_info[str_to_field_type(index_fields[k].field)].index
                      = index_fields[k].index

\* C28: no position of the line carries two roles: a configuration that
\* reaches the workers binds no two roles to the same index, whether the
\* bindings come from inference or from the -i option.
C28_OneRolePerPosition ==
    pc[0] = "configured" =>
        \A r1, r2 \in FieldTypes :
            (r1 # r2 /\ is_field_set(lc, r1) /\ is_field_set(lc, r2))
                => lc.total_field_info[r1].index # lc.total_field_info[r2].index

\* C29: a thread count T of 0, or with |T| > 4096, ends the run with errx
\* (exit status 1) before any worker is started, whatever the size of the
\* log; and once the workers of an accepted T are started, their number lies
\* in 1..4096.
C29_ThreadCountChecked ==
    LET T == gp.nthreads
        refused == T = 0 \/ T > NTHREADS_MAX \/ T < -NTHREADS_MAX
    IN  /\ refused => (DOMAIN pc = {} /\ mainpc \in {"getopt", "init_work_ctx", "errx"})
        /\ (~refused /\ mainpc \notin {"getopt", "init_work_ctx", "errx"}) =>
               /\ mainpc = "finish_work_ctx"
               /\ Cardinality(DOMAIN pc) \in 1..NTHREADS_MAX

\* C30: the sort of gen_path_graph leaves the request list of the session
\* entry it is at in non-decreasing timestamp order, requests with equal
\* timestamps in the order in which they were inserted: the list after the
\* sort is the stable sort of the list before it.
C30_StableSessionSort ==
    [][(mainpc = "qsort_requests" /\ gp.n <= Len(gp.entries)) =>
          LET before == EntryAt(sm, gp).requests
              n == EntryAt(sm, gp).nrequests
              after == EntryAt(sm', gp).requests
              RECURSIVE Insert(_, _)
              Insert(s, x) ==
                  IF s = <<>> THEN <<x>>
                  ELSE IF TsGreater(Head(s).ts, x.ts) THEN <<x>> \o s
                  ELSE <<Head(s)>> \o Insert(Tail(s), x)
              RECURSIVE Stable(_)
              Stable(k) == IF k = 0 THEN <<>> ELSE Insert(Stable(k - 1), before[k])
          IN  SubSeq(after, 1, n) = Stable(n)]_vars

(***************************************************************************)
(* C31 .. C40                                                              *)
(***************************************************************************)
\* C31: when gen_path_graph is at position r (0-based) of a session's sorted
\* request list, the depth it passes is 1 plus the number of earlier adjacent
\* pairs of the list whose RequestIds differ: 1 at the start of every
\* session, one more after an item followed by another request, the same
\* after an item followed by the same request.
C31_DepthCountsChanges ==
    (mainpc = "amend_vertex" /\ gp.r < EntryAt(sm, gp).nrequests) =>
        LET requests == EntryAt(sm, gp).requests
        IN  gp.depth = 1 + Cardinality({i \in 1..gp.r :
                                           requests[i].rid # requests[i + 1].rid})

\* The walk is at the third item of a list whose first two items are the
\* same request: one pair kept the depth, one pair raised it.
C31_Witness ==
    /\ mainpc = "amend_vertex"
    /\ gp.r = 2
    /\ gp.r < EntryAt(sm, gp).nrequests
    /\ EntryAt(sm, gp).requests[1].rid = EntryAt(sm, gp).requests[2].rid
    /\ EntryAt(sm, gp).requests[2].rid # EntryAt(sm, gp).requests[3].rid
    /\ gp.depth = 2

C33_FullSidDistinguishes ==
    /\ \A b \in DOMAIN sm.handles : \A k \in 1..Len(sm.handles[b]) :
          LET entry == sm.handles[b][k]
              calls == {x \in BagToSet(hist.amends) : x.sid = entry.sid}
          IN  entry.nrequests <= SumOver([x \in calls |-> CopiesIn(x, hist.amends)], calls)
    /\ \A x, y \in BagToSet(hist.amends) :
          (x.bucket_idx = y.bucket_idx /\ x.sid # y.sid) =>
              \A k \in 1..Len(sm.handles[x.bucket_idx]) :
                  ~(/\ SessionFind(sm.handles[x.bucket_idx], x.sid) = k
                    /\ SessionFind(sm.handles[x.bucket_idx], y.sid) = k)

\* C34: when a pattern matches, what truncate_raw_request writes is the raw
\* request with every match of that pattern replaced by the alias and the
\* rest kept in place, the bytes after the last match included; when no
\* pattern matches it is the raw request.
C34_KeepsTextAroundMatches ==
    \A w \in DOMAIN pc :
        pc[w] \in {"truncated", "truncated_again"} =>
            LET raw_buf == loc[w].raw_buf
                hits == {p \in 1..Len(tp) :
                            \E o \in 0..Len(raw_buf) : Occurs(tp[p].pattern, raw_buf, o)}
                RECURSIVE Replaced(_, _)
                Replaced(s, p) ==
                    IF \E o \in 0..Len(s) : Occurs(p.pattern, s, o)
                    THEN LET o == CHOOSE o \in 0..Len(s) :
                                     /\ Occurs(p.pattern, s, o)
                                     /\ \A o2 \in 0..(o - 1) : ~Occurs(p.pattern, s, o2)
                         IN  SubSeq(s, 1, o) \o p.alias
                             \o Replaced(SubSeq(s, o + Len(p.pattern) + 1, Len(s)), p)
                    ELSE s
            IN  IF hits = {} THEN loc[w].trunc_buf = raw_buf
                ELSE loc[w].trunc_buf
                        = Replaced(raw_buf, tp[CHOOSE p \in hits : \A q \in hits : p <= q])

\* C35: truncate_raw_request terminates for every raw request and every
\* pattern list, a pattern that matches the empty string included: each
\* pass of the replacement loop moves raw_buf forward by at least one byte.
C35_EachStepConsumes ==
    [][\A w \in DOMAIN pc :
          pc[w] = "truncate_loop" => loc'[w].raw_off > loc[w].raw_off]_vars

\* C36: the bytes truncate_raw_request writes never exceed the capacity
\* add_request_set_entry reserves, req_size + 8 * max_alias_size, whatever
\* the number of matches.
C36_WithinCapacity ==
    \A w \in DOMAIN pc :
        Len(loc[w].trunc_buf)
            <= loc[w].req_size + REQUEST_NTRUNCS_MAX * max_alias_size(tp)

\* C37: each comparator handed to qsort is a consistent three-way order on
\* the records the program sorts: the sign of cmp(a, b) is the opposite of
\* the sign of cmp(b, a), the result is negative exactly when a must come
\* before b (earlier timestamp; more hits; smaller depth, then higher
\* score), and zero only when a and b are equal on the sort keys.
C37_ThreeWayComparators ==
    LET Sign(n) == IF n < 0 THEN -1 ELSE IF n > 0 THEN 1 ELSE 0
        ThreeWay(compar, S, Before(_, _)) ==
            \A a, b \in S :
                /\ Sign(Call(compar, a, b)) = -Sign(Call(compar, b, a))
                /\ Call(compar, a, b) < 0 <=> Before(a, b)
                /\ Call(compar, a, b) = 0 => ~Before(a, b) /\ ~Before(b, a)
        TsBefore(r1, r2) == TsGreater(r2.ts, r1.ts)
        HitsBefore(e1, e2) == e1.nhits > e2.nhits
        VertexBefore(v1, v2) ==
            \/ v1.min_depth < v2.min_depth
            \/ /\ v1.min_depth = v2.min_depth
               /\ v1.total_nhits_in + v1.total_nhits_out
                      > v2.total_nhits_in + v2.total_nhits_out
        built == mainpc \in {"qsort_vertices", "qsort_edges", "done"}
    IN  /\ \A k \in 1..Len(SessionList) :
              ThreeWay("cmp_session_request",
                       {SessionList[k].requests[i] : i \in 1..SessionList[k].nrequests},
                       TsBefore)
        /\ built =>
              ThreeWay("cmp_path_graph_vertex_by_hits",
                       {pg.vertices[v] : v \in 1..pg.nvertices}, VertexBefore)
        /\ built =>
              \A v \in 1..pg.nvertices :
                  ThreeWay("cmp_path_graph_edge_by_hits",
                           {pg.vertices[v].edges[e] : e \in 1..pg.vertices[v].nedges},
                           HitsBefore)

\* C38: for every start position inside the mapped file, get_fields reads
\* no byte after the NUL that terminates the file (tokenizing starts at or
\* before the NUL), and the worker's cursor never moves past that NUL, a
\* worker whose chunk starts inside a last line without newline included.
C38_StaysBeforeNul ==
    \A w \in DOMAIN pc :
        pc[w] \in {"returned", "fault"} =>
            /\ loc[w].line <= Len(file)
            /\ src[w] = NULL \/ src[w] <= Len(file)
            /\ pc[w] # "fault"

C40_GraphCounters ==
    mainpc \in {"amend_vertex", "qsort_requests", "qsort_vertices"} =>
        LET RECURSIVE IsLimit(_)
            IsLimit(n) ==
                \/ n = PATH_GRAPH_VERTEX_INIT_LIM_NEDGES
                \/ n > PATH_GRAPH_VERTEX_INIT_LIM_NEDGES /\ n % 2 = 0 /\ IsLimit(n \div 2)
            slots == 1..pg.capvertices
            live == {v \in slots : ~is_null_vertex(pg.vertices[v])}
            RECURSIVE Sum(_)
            Sum(S) == IF S = {} THEN 0
                      ELSE LET v == CHOOSE v \in S : TRUE
                           IN  pg.vertices[v].nedges + Sum(S \ {v})
        IN  /\ \A v \in live :
                  /\ pg.vertices[v].nedges <= pg.vertices[v].lim_nedges
                  /\ IsLimit(pg.vertices[v].lim_nedges)
                  /\ Len(pg.vertices[v].edges) = pg.vertices[v].nedges
                  /\ \A e1, e2 \in 1..pg.vertices[v].nedges :
                        e1 # e2 => pg.vertices[v].edges[e1].rid # pg.vertices[v].edges[e2].rid
            /\ pg.nvertices = Cardinality(live)
            /\ pg.total_nedges = Sum(slots)

\* A vertex whose edge buffer has been doubled: more than 8 edges, to
\* different destinations, in a buffer of 16.
C40_Witness ==
    /\ mainpc = "amend_vertex"
    /\ gp.r > 0
    /\ \E v \in 1..pg.capvertices :
          /\ pg.vertices[v].nedges > PATH_GRAPH_VERTEX_INIT_LIM_NEDGES
          /\ pg.vertices[v].lim_nedges = 2 * PATH_GRAPH_VERTEX_INIT_LIM_NEDGES
    /\ pg.nvertices > 2

====
